---- MODULE Spec2Model ----
(***************************************************************************)
(* State-machine models of the tmcp control-flow primitives                *)
(* (merge-streams, gate, delay, minrate), one specification per module.    *)
(* Each module is a single-threaded event loop: every action below is one  *)
(* callback run to completion.                                             *)
(***************************************************************************)
EXTENDS Integers, Sequences, FiniteSets, TLC

(***************************************************************************)
(* Bounds of the model                                                     *)
(***************************************************************************)
MaxMain == 2        \* primary records read by merge
MaxSide == 2        \* side records read by merge (all channels together)
MaxNow == 4         \* last wall-clock instant of the merge model

(***************************************************************************)
(* JavaScript values of meta.timestamp                                     *)
(*   k = "num"  : a finite number n                                        *)
(*   k = "none" : undefined / null (field missing)                         *)
(*   k = "str"  : a non-numeric string (coerces to NaN)                    *)
(***************************************************************************)
Num(n) == [k |-> "num", n |-> n]
TsNone == [k |-> "none", n |-> 0]
TsStr == [k |-> "str", n |-> 0]

\* typeof ts === "number"
IsNumber(ts) == ts.k = "num"

\* (ts ?? 0) < cutoff : a missing timestamp counts as 0, NaN compares false
TsOlderThan(ts, cutoff) ==
  CASE ts.k = "num" -> ts.n < cutoff
    [] ts.k = "none" -> 0 < cutoff
    [] OTHER -> FALSE

Abs(x) == IF x < 0 THEN -x ELSE x

VARIABLES
  \* ---- tmcp-control-merge-streams.js ----
  mainBuffer,         \* history of primary records (trimmed by age)
  sideBuffers,        \* per side channel: history of side records
  sideLastUnbounded,  \* per side channel: last record with a numeric timestamp
  mrgNow,             \* Date.now()
  mrgIn,              \* primary records read so far (environment history)
  mrgSideCount,       \* side records read so far
  mrgSideIn,          \* side records read so far (environment history)
  mrgOutAt,           \* per written record: side records read when it was written
  mrgOut,             \* records written to stdout
  \* ---- lib/pipeline-core.js ----
  doTag,              \* param.do-tag (tagEnabled)
  \* ---- tmcp-control-gate.js ----
  normalizedBlocks,   \* the configured gate blocks
  activated,          \* gate latch
  warnedTimeout,      \* one-shot timeout warning given
  gateOpenedReported, \* activation logged
  gateNow,            \* Date.now()
  gateIn,             \* records read so far (environment history)
  gateOut,            \* records written to stdout
  \* ---- tmcp-control-delay.js ----
  delayMs,            \* --delay-ms, as a number
  queue,              \* buffered items, sorted by outTs
  inputClosed,        \* stdin ended or closed
  watermarkTs,        \* max input timestamp seen
  dlyExited,          \* process.exit was called
  dlyNow,             \* Date.now()
  dlyIn,              \* records read so far (environment history)
  dlyOut,             \* records written to stdout
  dlyOutAt,           \* per written record: records read when it was written
  \* ---- tmcp-control-minrate.js ----
  intervalMs,         \* resolved interval (a number, or the raw CLI string)
  minExited,          \* process.exit(1) during startup
  lastMessage,        \* last real record written
  lastLogicalTs,      \* logical timestamp of the last record written
  lastEmitWall,       \* wall-clock time of the last write
  minNow,             \* Date.now()
  minFired,           \* the watchdog timer already ran at this instant
  minIn,              \* records read so far (environment history)
  minOut,             \* records written to stdout
  minLastOutWall,     \* wall-clock time of the last write (-1: none yet)
  \* ---- tmcp-control-dedup.js ----
  dedupCfg,           \* the dedup block of the configuration file
  lastData,           \* data of the last record written
  haveLast,           \* a record has been written
  dedIn,              \* records read so far (environment history)
  dedOut,             \* records written to stdout
  \* ---- tmcp-control-split-streams.js ----
  channels,           \* per side channel: fd (open or null), retryTimer (due time)
  splPolicy,          \* effective exitOnClose / retry of the side writes
  splTarget,          \* per side target: what open() returns (environment)
  splLastOpen,        \* per side channel: result and time of the last open() (history)
  splExited,          \* the process has terminated
  splNow,             \* Date.now() in ms since start
  splIn,              \* records read so far (environment history)
  splOut,             \* records written to stdout
  splSide,            \* per side channel: records written to it
  \* ---- tmcp-annotate-state-machine.js ----
  smCfg,              \* the stateMachine block of the configuration file
  instanceRuntime,    \* per instance: state, enteredAtMs
  smExited,           \* the process died on an uncaught exception
  smNow,              \* Date.now()
  smIn,               \* records read so far, with what was observed (history)
  smOut,              \* records written to stdout
  \* ---- tmcp-transformer-reduce.js ----
  reduceCfg,          \* the reduce block of the configuration file
  retained,           \* retained values (<name>__prev)
  redHung,            \* the callback is inside an evaluation that never returns
  redIn,              \* records read so far (history)
  redOut,             \* records written to stdout
  \* ---- lib/pipeline-stream.js: channel policies ----
  chanGlobal,         \* channelExitOnCloseOverrides, channelRetryOverrides
  streamWritePolicies,\* per stream: the policy stored by its first writer
  chanState,          \* "running", "terminated" or "crashed"
  chanCount,          \* calls made so far
  chanCall,           \* the last safeRead/safeWrite call and what became of it
  \* ---- lib/pipeline-stream.js: safeRead ----
  rdProtocol,         \* resolveInProtocol(): "ndjson" or "msgpack"
  rdExitOnClose,      \* effective exitOnClose of the read channel
  rdBuffer,           \* NDJSON: characters received after the last newline
  rdRecv,             \* everything the stream delivered so far (history)
  rdDelivered,        \* values handed to onRecord, in order
  rdDecoding,         \* MsgPack: the for-await loop is still running
  rdState,            \* "open", "ended" or "terminated"
  \* ---- lib/pipeline-core.js: one record through a module ----
  coreIn,             \* the decoded input value
  coreObj,            \* the object as the module holds it
  coreStep,           \* "input", "read", "tagged" or "written"
  \* ---- lib/pipeline-config.js: parseCLIOnce for one registered parameter ----
  cliParam,           \* the registry entry
  cliArgv,            \* how the parameter appears on the command line
  cliEnv,             \* process.env[p.envname]
  cliStatus,          \* isDirty, isError
  cliValue,           \* cliBase.params[p.longnameLower]
  \* ---- lib/pipeline-config.js: registration and loading during startup ----
  paramRegistry,      \* registered parameters, in registration order
  positionalsSchema,  \* the positional schema, or none registered
  configRegistry,     \* registered config fields, in registration order
  cliBase,            \* params, positionals, namedPositionals as last resolved
  cliRuntime,         \* the memoized accessor exists
  ldStatus,           \* cliStatus: isDirty, isError, showHelp
  ldArgv,             \* process.argv.slice(2): parameters given and positionals
  ldFile,             \* what reading the config file from disk gives
  ldConfig,           \* outcome of loadConfigFile: "none", "ok" or "failed"
  ldParses,           \* number of times argv was handed to minimist (history)
  ldCalls,            \* register/load calls made so far
  ldChecked,          \* loadCLI() returned after the last registration
  ldExit,             \* "none", "0", "-1" or "threw"
  ldPhase,            \* "startup" or "running" (safeRead installed)
  ldRecords           \* records handed to the module's callback

mergeVars == <<mainBuffer, sideBuffers, sideLastUnbounded, mrgNow, mrgIn,
               mrgSideCount, mrgSideIn, mrgOutAt, mrgOut>>

gateVars == <<normalizedBlocks, activated, warnedTimeout, gateOpenedReported,
              gateNow, gateIn, gateOut>>

delayVars == <<delayMs, queue, inputClosed, watermarkTs, dlyExited, dlyNow,
               dlyIn, dlyOut, dlyOutAt>>

minrateVars == <<intervalMs, minExited, lastMessage, lastLogicalTs, lastEmitWall,
                 minNow, minFired, minIn, minOut, minLastOutWall>>

dedupVars == <<dedupCfg, lastData, haveLast, dedIn, dedOut>>

splitVars == <<channels, splPolicy, splTarget, splLastOpen, splExited, splNow,
               splIn, splOut, splSide>>

smVars == <<smCfg, instanceRuntime, smExited, smNow, smIn, smOut>>

\* the modules added after the first four
redVars == <<reduceCfg, retained, redHung, redIn, redOut>>

chanVars == <<chanGlobal, streamWritePolicies, chanState, chanCount, chanCall>>

\* the shared library
rdVars == <<rdProtocol, rdExitOnClose, rdBuffer, rdRecv, rdDelivered, rdDecoding, rdState>>
coreVars == <<coreIn, coreObj, coreStep>>
cliVars == <<cliParam, cliArgv, cliEnv, cliStatus, cliValue>>
ldVars == <<paramRegistry, positionalsSchema, configRegistry, cliBase, cliRuntime,
           ldStatus, ldArgv, ldFile, ldConfig, ldParses, ldCalls, ldChecked, ldExit,
           ldPhase, ldRecords>>
libVars == <<chanVars, rdVars, coreVars, cliVars, ldVars>>

moreVars == <<dedupVars, splitVars, smVars, redVars, libVars>>

vars == <<mergeVars, doTag, gateVars, delayVars, minrateVars, moreVars>>

\* what the callbacks of one module leave alone: the other modules
mergeRest == <<doTag, gateVars, delayVars, minrateVars, moreVars>>
gateRest == <<doTag, mergeVars, delayVars, minrateVars, moreVars>>
delayRest == <<doTag, mergeVars, gateVars, minrateVars, moreVars>>
minrateRest == <<doTag, mergeVars, gateVars, delayVars, moreVars>>
firstVars == <<doTag, mergeVars, gateVars, delayVars, minrateVars>>
dedupRest == <<firstVars, splitVars, smVars, redVars, libVars>>
splitRest == <<firstVars, dedupVars, smVars, redVars, libVars>>
smRest == <<firstVars, dedupVars, splitVars, redVars, libVars>>
redRest == <<firstVars, dedupVars, splitVars, smVars, libVars>>
appVars == <<firstVars, dedupVars, splitVars, smVars, redVars>>
chanRest == <<appVars, rdVars, coreVars, cliVars, ldVars>>
rdRest == <<appVars, chanVars, coreVars, cliVars, ldVars>>
cliRest == <<appVars, chanVars, rdVars, coreVars, ldVars>>
ldRest == <<appVars, chanVars, rdVars, coreVars, cliVars>>
coreRest == <<mergeVars, gateVars, delayVars, minrateVars, dedupVars, splitVars, smVars,
              redVars, chanVars, rdVars, cliVars, ldVars>>

(***************************************************************************)
(* tmcp-control-merge-streams.js                                           *)
(***************************************************************************)
MATCH_TOLERANCE_MS == 1
MAX_BUFFER_MS == 2
\* two side channels: channel 1 bounded (interpolating), channel 2 hold-last
allowUnbounded == <<FALSE, TRUE>>
NoRec == [id |-> 0, ts |-> TsNone, y |-> 0]

MergeNowBase == 3
\* primary records (meta.timestamp, data): timestamp missing, non-numeric,
\* older than the window, inside the window; data has the keys x, y_1, y_2
\* (-1: key absent)
MainRecs ==
  {[ts |-> TsNone, data |-> [x |-> 7, y_1 |-> -1, y_2 |-> -1]],
   [ts |-> TsStr, data |-> [x |-> 7, y_1 |-> -1, y_2 |-> -1]],
   [ts |-> Num(0), data |-> [x |-> 7, y_1 |-> -1, y_2 |-> -1]],
   [ts |-> Num(3), data |-> [x |-> 7, y_1 |-> 5, y_2 |-> -1]]}
postfixes == <<"_1", "_2">>
\* side records (channel, meta.timestamp, data.y): on the bounded channel
\* untimed, two before and one after the primary time 3; on the hold-last
\* channel untimed and timed
SideRecs ==
  {[idx |-> 1, ts |-> TsNone, y |-> 1], [idx |-> 1, ts |-> Num(1), y |-> 1],
   [idx |-> 1, ts |-> Num(2), y |-> 3], [idx |-> 1, ts |-> Num(5), y |-> 3],
   [idx |-> 2, ts |-> TsNone, y |-> 1], [idx |-> 2, ts |-> Num(5), y |-> 3]}

RECURSIVE ShiftOld(_, _)
\* while (buf.length && (buf[0].meta?.timestamp ?? 0) < cutoff) buf.shift()
ShiftOld(buf, cutoff) ==
  IF Len(buf) > 0 /\ TsOlderThan(buf[1].ts, cutoff)
    THEN ShiftOld(Tail(buf), cutoff)
    ELSE buf

pushMain(buf, obj, now) == ShiftOld(Append(buf, obj), now - MAX_BUFFER_MS)

\* pushSide: new value of sideBuffers[idx]
pushSideBuffer(buf, idx, obj, now) ==
  IF allowUnbounded[idx]
    THEN Append(buf, obj)
    ELSE IF IsNumber(obj.ts)
           THEN ShiftOld(Append(buf, obj), now - MAX_BUFFER_MS)
           ELSE buf

pushSideLast_Any(last, idx, obj) ==
  IF allowUnbounded[idx] THEN obj ELSE last

\* pushSide: new value of sideLastUnbounded[idx]
pushSideLast(last, idx, obj) ==
  IF allowUnbounded[idx] /\ IsNumber(obj.ts) THEN obj ELSE last

\* (rec.meta?.timestamp ?? 0) as a number; bounded buffers hold numbers only
TsOrZero(ts) == IF ts.k = "num" THEN ts.n ELSE 0

RECURSIVE ClosestFrom(_, _, _, _)
\* the loop of findClosest: keeps the first record of minimal distance
ClosestFrom(buf, ts, i, best) ==
  IF i > Len(buf) THEN best
  ELSE IF Abs(ts - TsOrZero(buf[i].ts)) < Abs(ts - TsOrZero(best.ts))
         THEN ClosestFrom(buf, ts, i + 1, buf[i])
         ELSE ClosestFrom(buf, ts, i + 1, best)

\* a selected side contribution: value num/den of key y, or nothing
NoSel == [k |-> "none", id |-> 0, num |-> 0, den |-> 1]
SelRec(r) == [k |-> "rec", id |-> r.id, num |-> r.y, den |-> 1]

findClosest(buf, ts) ==
  IF Len(buf) = 0 THEN NoSel
  ELSE LET best == ClosestFrom(buf, ts, 1, buf[1])
       IN IF Abs(ts - TsOrZero(best.ts)) > MATCH_TOLERANCE_MS
            THEN NoSel ELSE SelRec(best)

interpolateBounded(buf, ts) ==
  LET nearest == findClosest(buf, ts)
      befIdx == {i \in 1..Len(buf) : TsOrZero(buf[i].ts) <= ts}
      aftIdx == {i \in 1..Len(buf) : TsOrZero(buf[i].ts) > ts}
      maxOf(S) == CHOOSE i \in S : \A j \in S : j <= i
      minOf(S) == CHOOSE i \in S : \A j \in S : i <= j
  IN IF nearest.k # "none" THEN nearest
     ELSE IF befIdx # {} /\ aftIdx # {}
       THEN LET before == buf[maxOf(befIdx)]
                after == buf[minOf(aftIdx)]
                t1 == before.ts.n
                t2 == after.ts.n
            IN IF t2 <= t1 THEN SelRec(before)
               ELSE [k |-> "interp", id |-> before.id,
                     num |-> before.y * (t2 - t1) + (after.y - before.y) * (ts - t1),
                     den |-> t2 - t1]
       ELSE IF befIdx # {} THEN SelRec(buf[maxOf(befIdx)])
       ELSE IF aftIdx # {} THEN SelRec(buf[minOf(aftIdx)])
       ELSE NoSel

interpolateSide(idx, ts) ==
  IF allowUnbounded[idx]
    THEN IF sideLastUnbounded[idx] = NoRec THEN NoSel
         ELSE SelRec(sideLastUnbounded[idx])
    ELSE interpolateBounded(sideBuffers[idx], ts)

\* appendTag(meta, tag): push the tag unless tagging is disabled
appendTag(pipeline, tag) == IF doTag THEN Append(pipeline, tag) ELSE pipeline

\* a value of the written data: the fraction num/den, or key absent
NoVal == [k |-> "none", num |-> 0, den |-> 1]
Val(num, den) == [k |-> "val", num |-> num, den |-> den]
CopyData(data) ==
  [key \in DOMAIN data |-> IF data[key] = -1 THEN NoVal ELSE Val(data[key], 1)]

\* merged.data: { ...mainObj.data }, then merged.data[key + postfix] = val
\* for the key y of every selected side record
mergedData(data, sel) ==
  [key \in DOMAIN data |->
     IF \E i \in 1..2 : sel[i].k # "none" /\ key = "y" \o postfixes[i]
       THEN LET i == CHOOSE i \in 1..2 : sel[i].k # "none" /\ key = "y" \o postfixes[i]
            IN Val(sel[i].num, sel[i].den)
       ELSE CopyData(data)[key]]

\* the records tryEmit writes, given the main buffer after pushMain
tryEmit(buf) ==
  IF Len(buf) = 0 THEN <<>>
  ELSE LET mainObj == buf[Len(buf)]
           sel == [i \in 1..2 |-> interpolateSide(i, mainObj.ts.n)]
       IN IF ~IsNumber(mainObj.ts)
            THEN << [id |-> mainObj.id, ts |-> mainObj.ts, pipeline |-> appendTag(<<>>, "mrg"),
                     side |-> <<NoSel, NoSel>>, data |-> CopyData(mainObj.data)] >>
            ELSE << [id |-> mainObj.id, ts |-> mainObj.ts, pipeline |-> appendTag(<<>>, "mrg"),
                     side |-> sel, data |-> mergedData(mainObj.data, sel)] >>

MergeInit ==
  /\ mainBuffer = <<>>
  /\ sideBuffers = << <<>>, <<>> >>
  /\ sideLastUnbounded = <<NoRec, NoRec>>
  /\ mrgNow = MergeNowBase
  /\ mrgIn = <<>>
  /\ mrgSideCount = 0
  /\ mrgSideIn = <<>>
  /\ mrgOutAt = <<>>
  /\ mrgOut = <<>>

\* safeRead callback on stdin: pushMain(obj); tryEmit()
MergeReadMain(ts, data) ==
  /\ Len(mrgIn) < MaxMain
  /\ LET obj == [id |-> Len(mrgIn) + 1, ts |-> ts, data |-> data]
         buf == pushMain(mainBuffer, obj, mrgNow)
     IN /\ mainBuffer' = buf
        /\ mrgOut' = mrgOut \o tryEmit(buf)
        /\ mrgOutAt' = mrgOutAt \o [j \in 1..Len(tryEmit(buf)) |-> mrgSideCount]
        /\ mrgIn' = Append(mrgIn, obj)
  /\ UNCHANGED <<sideBuffers, sideLastUnbounded, mrgNow, mrgSideCount, mrgSideIn>>
  /\ UNCHANGED mergeRest

\* safeRead callback on side channel idx: pushSide(idx, obj)
MergeReadSide(idx, ts, y) ==
  /\ mrgSideCount < MaxSide
  /\ LET obj == [id |-> mrgSideCount + 1, ts |-> ts, y |-> y]
     IN /\ sideBuffers' = [sideBuffers EXCEPT
                             ![idx] = pushSideBuffer(@, idx, obj, mrgNow)]
        /\ sideLastUnbounded' = [sideLastUnbounded EXCEPT
                                   ![idx] = pushSideLast(@, idx, obj)]
  /\ mrgSideCount' = mrgSideCount + 1
  /\ mrgSideIn' = Append(mrgSideIn, [idx |-> idx, id |-> mrgSideCount + 1,
                                     ts |-> ts, y |-> y])
  /\ UNCHANGED <<mainBuffer, mrgNow, mrgIn, mrgOut, mrgOutAt>>
  /\ UNCHANGED mergeRest

\* wall-clock time passes between callbacks
MergeTick ==
  /\ mrgNow < MaxNow
  /\ mrgNow' = mrgNow + 1
  /\ UNCHANGED <<mainBuffer, sideBuffers, sideLastUnbounded, mrgIn,
                 mrgSideCount, mrgSideIn, mrgOutAt, mrgOut>>
  /\ UNCHANGED mergeRest

MergeNext ==
  \/ \E r \in MainRecs : MergeReadMain(r.ts, r.data)
  \/ \E r \in SideRecs : MergeReadSide(r.idx, r.ts, r.y)
  \/ MergeTick


(***************************************************************************)
(* tmcp-control-gate.js                                                    *)
(***************************************************************************)
MaxGateRecs == 3    \* records read by gate
MaxGateNow == 2     \* last wall-clock instant of the gate model

\* JSON values of a data field; k = "absent" when the key is not in data
Absent == [k |-> "absent", n |-> 0, b |-> FALSE, s |-> ""]
JNull == [k |-> "null", n |-> 0, b |-> FALSE, s |-> ""]
JBool(b) == [k |-> "bool", n |-> 0, b |-> b, s |-> ""]
JNum(n) == [k |-> "num", n |-> n, b |-> FALSE, s |-> ""]
JStr(s) == [k |-> "str", n |-> 0, b |-> FALSE, s |-> s]

GateKeys == {"ready", "x", "mode"}
Data(r, x, m) == [ready |-> r, x |-> x, mode |-> m]

\* a normalized block; maxAgeMs = -1 stands for null (not configured)
Block(mh, mv, be, se, age, tmo) ==
  [mustHave |-> mh, minValues |-> mv, boolEqual |-> be, strEqual |-> se,
   maxAgeMs |-> age, timeoutMs |-> tmo]

\* maps of a block are sets of <<key, value>> pairs
GateConfigs ==
  { <<>>,
    << Block({"ready"}, {}, {<<"ready", TRUE>>}, {}, -1, 1) >>,
    << Block({"ready"}, {}, {}, {}, -1, 1),
       Block({}, {<<"x", 2>>}, {<<"ready", FALSE>>}, {}, 1, 0) >>,
    << Block({}, {}, {}, {<<"mode", "run">>}, -1, 1),
       Block({"x"}, {}, {}, {}, -1, 1) >> }

GateData ==
  { Data(JBool(FALSE), JNum(2), Absent),
    Data(JBool(TRUE), JNum(9), Absent),
    Data(JNull, JNum(1), JStr("run")),
    Data(Absent, JNum(3), JStr("run")) }

GateTs == {TsNone, Num(0)}

booleanCheck(data, boolMap) ==
  \A p \in boolMap :
    LET present == data[p[1]].k # "absent"
    IN /\ p[2] = TRUE => (present /\ data[p[1]] = JBool(TRUE))
       /\ p[2] = FALSE => ~(present /\ data[p[1]] # JBool(FALSE))

stringEqualCheck(data, strMap) ==
  \A p \in strMap :
    /\ data[p[1]].k # "absent"
    /\ data[p[1]] = JStr(p[2])

blockSatisfied(block, obj, now) ==
  /\ \A k \in block.mustHave :
       /\ obj.data[k].k # "absent"
       /\ obj.data[k].k # "null"
  /\ \A p \in block.minValues :
       /\ obj.data[p[1]].k = "num"
       /\ ~(obj.data[p[1]].n < p[2])
  /\ booleanCheck(obj.data, block.boolEqual)
  /\ stringEqualCheck(obj.data, block.strEqual)
  /\ block.maxAgeMs # -1 =>
       /\ IsNumber(obj.ts)
       /\ ~(now - obj.ts.n > block.maxAgeMs)

allBlocksSatisfied_AnyBlock(obj, now) ==
  \E i \in 1..Len(normalizedBlocks) : blockSatisfied(normalizedBlocks[i], obj, now)

allBlocksSatisfied(obj, now) ==
  \A i \in 1..Len(normalizedBlocks) : blockSatisfied(normalizedBlocks[i], obj, now)

\* Math.max(...normalizedBlocks.map(b => b.timeoutMs)); -Infinity when empty
GateMaxTimeout ==
  IF Len(normalizedBlocks) = 0 THEN -1
  ELSE CHOOSE t \in {normalizedBlocks[i].timeoutMs : i \in 1..Len(normalizedBlocks)} :
         \A i \in 1..Len(normalizedBlocks) : normalizedBlocks[i].timeoutMs <= t

gateStartTime == 0

GatePasses_NoLatch(obj, now) == allBlocksSatisfied(obj, now)

\* does the main loop write the record: the activating record, or any
\* record once activated
GatePasses(obj, now) ==
  IF ~activated THEN allBlocksSatisfied(obj, now) ELSE TRUE

GateInit ==
  /\ normalizedBlocks \in GateConfigs
  /\ activated = FALSE
  /\ warnedTimeout = FALSE
  /\ gateOpenedReported = FALSE
  /\ gateNow = gateStartTime
  /\ gateIn = <<>>
  /\ gateOut = <<>>

\* safeRead callback (main loop)
GateRead(data, ts) ==
  /\ Len(gateIn) < MaxGateRecs
  /\ LET obj == [data |-> data, ts |-> ts, pipeline |-> <<>>]
         idx == Len(gateIn) + 1
     IN /\ gateIn' = Append(gateIn, [obj |-> obj, now |-> gateNow])
        /\ warnedTimeout' =
             IF ~activated /\ ~warnedTimeout /\ gateNow - gateStartTime > GateMaxTimeout
               THEN TRUE ELSE warnedTimeout
        /\ IF GatePasses(obj, gateNow)
             THEN /\ activated' = TRUE
                  /\ gateOpenedReported' = TRUE
                  /\ gateOut' = Append(gateOut,
                       [idx |-> idx, data |-> obj.data, ts |-> obj.ts,
                        pipeline |-> appendTag(obj.pipeline, "gat")])
             ELSE UNCHANGED <<activated, gateOpenedReported, gateOut>>
  /\ UNCHANGED <<normalizedBlocks, gateNow>>
  /\ UNCHANGED gateRest

\* wall-clock time passes between callbacks
GateTick ==
  /\ gateNow < MaxGateNow
  /\ gateNow' = gateNow + 1
  /\ UNCHANGED <<normalizedBlocks, activated, warnedTimeout, gateOpenedReported,
                 gateIn, gateOut>>
  /\ UNCHANGED gateRest

GateNext ==
  \/ \E data \in GateData, ts \in GateTs : GateRead(data, ts)
  \/ GateTick


(***************************************************************************)
(* tmcp-control-delay.js                                                   *)
(***************************************************************************)
MaxDelayRecs == 3   \* records read by delay
MaxDelayNow == 2    \* last wall-clock instant of the delay model
MaxDelayTs == 3     \* largest input timestamp of the delay model

maxDelayMs == 2
\* Number.NEGATIVE_INFINITY: below every timestamp of the model
NEGATIVE_INFINITY == -1

DelayTs == {TsNone} \cup {Num(n) : n \in 0..MaxDelayTs}

RECURSIVE insertSortedAt(_, _, _, _)
\* the binary search of insertSorted (lo, hi are 0-based)
insertSortedAt(q, item, lo, hi) ==
  IF lo < hi
    THEN LET mid == (lo + hi) \div 2
         IN IF q[mid + 1].outTs <= item.outTs
              THEN insertSortedAt(q, item, mid + 1, hi)
              ELSE insertSortedAt(q, item, lo, mid)
    ELSE lo

insertSorted_Push(q, item) == Append(q, item)

\* queue.splice(lo, 0, item)
insertSorted(q, item) ==
  LET lo == insertSortedAt(q, item, 0, Len(q))
  IN SubSeq(q, 1, lo) \o <<item>> \o SubSeq(q, lo + 1, Len(q))

\* emitItem: the record written for a queue item, stamped with outTs
emitItem(item) ==
  [id |-> item.id, ts |-> item.outTs, pipeline |-> appendTag(<<>>, "dly")]

RECURSIVE flushReadyFrom(_, _, _)
flushReadyFrom(q, wm, out) ==
  IF Len(q) > 0 /\ q[1].outTs <= wm
    THEN flushReadyFrom(Tail(q), wm, Append(out, emitItem(q[1])))
    ELSE [queue |-> q, out |-> out]

RECURSIVE flushReadyFrom_Strict(_, _, _)
flushReadyFrom_Strict(q, wm, out) ==
  IF Len(q) > 0 /\ q[1].outTs < wm
    THEN flushReadyFrom_Strict(Tail(q), wm, Append(out, emitItem(q[1])))
    ELSE [queue |-> q, out |-> out]

flushReady_Strict(q, wm) == flushReadyFrom_Strict(q, wm, <<>>)

\* flushReady: emit the head of the queue while its outTs <= watermark
flushReady(q, wm) == flushReadyFrom(q, wm, <<>>)

RECURSIVE flushAllFrom(_, _)
flushAllFrom(q, out) ==
  IF Len(q) > 0
    THEN flushAllFrom(Tail(q), Append(out, emitItem(q[1])))
    ELSE [queue |-> q, out |-> out]

flushAll_Watermark(q, wm) == flushReady(q, wm)

\* flushAll: emit the whole queue (wm is not consulted)
flushAll(q, wm) == flushAllFrom(q, <<>>)

\* the safeRead callback on a state [queue, wm, out]
delayOnRecord(st, obj, now) ==
  LET tsIn == IF IsNumber(obj.ts) THEN obj.ts.n ELSE now
      wm == IF tsIn > st.wm THEN tsIn ELSE st.wm
      outTs == tsIn + delayMs
      fl == flushReady(insertSorted(st.queue, [outTs |-> outTs, id |-> obj.id]), wm)
  IN [queue |-> fl.queue, wm |-> wm, out |-> st.out \o fl.out]

\* history bookkeeping: extend at to length n with the read count
StampAt(at, n, count) == at \o [i \in 1..(n - Len(at)) |-> count]

DelayInit ==
  /\ delayMs \in 0..maxDelayMs
  /\ queue = <<>>
  /\ inputClosed = FALSE
  /\ watermarkTs = NEGATIVE_INFINITY
  /\ dlyExited = FALSE
  /\ dlyNow = 1
  /\ dlyIn = <<>>
  /\ dlyOut = <<>>
  /\ dlyOutAt = <<>>

\* safeRead callback: one complete input line
DelayRead(ts) ==
  /\ ~dlyExited /\ ~inputClosed
  /\ Len(dlyIn) < MaxDelayRecs
  /\ LET obj == [id |-> Len(dlyIn) + 1, ts |-> ts, now |-> dlyNow]
         st == delayOnRecord([queue |-> queue, wm |-> watermarkTs, out |-> dlyOut],
                             obj, dlyNow)
     IN /\ dlyIn' = Append(dlyIn, obj)
        /\ queue' = st.queue
        /\ watermarkTs' = st.wm
        /\ dlyOut' = st.out
        /\ dlyOutAt' = StampAt(dlyOutAt, Len(st.out), Len(dlyIn) + 1)
  /\ UNCHANGED <<delayMs, inputClosed, dlyExited, dlyNow>>
  /\ UNCHANGED delayRest

\* stdin "end": safeRead delivers an unterminated last line (tail), if any,
\* then the module's handler flushes the queue and exits
DelayEnd(hasTail, ts) ==
  /\ ~dlyExited /\ ~inputClosed
  /\ hasTail => Len(dlyIn) < MaxDelayRecs
  /\ LET obj == [id |-> Len(dlyIn) + 1, ts |-> ts, now |-> dlyNow]
         st0 == [queue |-> queue, wm |-> watermarkTs, out |-> dlyOut]
         st == IF hasTail THEN delayOnRecord(st0, obj, dlyNow) ELSE st0
         fl == flushAll(st.queue, st.wm)
     IN /\ dlyIn' = IF hasTail THEN Append(dlyIn, obj) ELSE dlyIn
        /\ watermarkTs' = st.wm
        /\ queue' = fl.queue
        /\ dlyOut' = st.out \o fl.out
        /\ dlyOutAt' = StampAt(dlyOutAt, Len(st.out \o fl.out),
                               IF hasTail THEN Len(dlyIn) + 1 ELSE Len(dlyIn))
        /\ inputClosed' = TRUE
        /\ dlyExited' = (fl.queue = <<>>)
  /\ UNCHANGED <<delayMs, dlyNow>>
  /\ UNCHANGED delayRest

\* stdin "close" arriving without a preceding "end" (stream destroyed)
DelayClose ==
  /\ ~dlyExited /\ ~inputClosed
  /\ LET fl == flushAll(queue, watermarkTs)
     IN /\ queue' = fl.queue
        /\ dlyOut' = dlyOut \o fl.out
        /\ dlyOutAt' = StampAt(dlyOutAt, Len(dlyOut \o fl.out), Len(dlyIn))
        /\ inputClosed' = TRUE
        /\ dlyExited' = (fl.queue = <<>>)
  /\ UNCHANGED <<delayMs, watermarkTs, dlyNow, dlyIn>>
  /\ UNCHANGED delayRest

\* wall-clock time passes between callbacks
DelayTick ==
  /\ ~dlyExited
  /\ dlyNow < MaxDelayNow
  /\ dlyNow' = dlyNow + 1
  /\ UNCHANGED <<delayMs, queue, inputClosed, watermarkTs, dlyExited, dlyIn,
                 dlyOut, dlyOutAt>>
  /\ UNCHANGED delayRest

DelayNext ==
  \/ \E ts \in DelayTs : DelayRead(ts)
  \/ \E hasTail \in BOOLEAN, ts \in DelayTs : DelayEnd(hasTail, ts)
  \/ DelayClose
  \/ DelayTick


(***************************************************************************)
(* tmcp-control-minrate.js                                                 *)
(***************************************************************************)
MaxMinReal == 2     \* real records read by minrate
MaxMinNow == 22     \* last wall-clock instant of the minrate model

\* a CLI/ENV value is always a string (parseCLIOnce registers every
\* value-expecting parameter as a minimist string); k = "numstr" is the
\* decimal string of n
NumStr(n) == [k |-> "numstr", n |-> n]
Undefined == TsNone

\* ToNumber of a number or a decimal string
ToNumber(v) == v.n

RECURSIVE Digits(_)
Digits(n) == IF n < 10 THEN 1 ELSE 1 + Digits(n \div 10)

RECURSIVE Pow10(_)
Pow10(d) == IF d = 0 THEN 1 ELSE 10 * Pow10(d - 1)

\* a + b where a is a number: numeric addition when b is a number, string
\* concatenation of the decimal representations when b is a string
JsPlus(a, b) ==
  IF b.k = "num" THEN Num(a.n + b.n)
  ELSE NumStr(a.n * Pow10(Digits(b.n)) + b.n)

\* Number.isFinite(v): false for null and for every string
NumberIsFinite(v) == v.k = "num"

\* the command lines of the model: --interval-ms and --rate as given
MinrateCli ==
  { [interval |-> NumStr(8), rate |-> Undefined],
    [interval |-> Undefined, rate |-> NumStr(125)],
    [interval |-> NumStr(8), rate |-> NumStr(125)],
    [interval |-> Undefined, rate |-> Undefined] }

MinrateCliValid(cli) ==
  (cli.interval.k # "none") # (cli.rate.k # "none")

\* intervalMs resolution; 1000 / rate is exact for the rates of the model
ResolveIntervalMs(cli) ==
  IF cli.interval.k # "none" THEN cli.interval
  ELSE IF cli.rate.k # "none" THEN Num(1000 \div ToNumber(cli.rate))
  ELSE Undefined

\* Math.max(5, Math.floor(intervalMs / 4))
WatchdogPeriod ==
  IF ToNumber(intervalMs) \div 4 > 5 THEN ToNumber(intervalMs) \div 4 ELSE 5

NoMsg == [id |-> 0, ts |-> TsNone, pipeline |-> <<>>]
MinTs == {TsNone, Num(100), Num(104)}

\* the record the safeRead callback writes for a real input
minrateReal_DropUntimed(obj, now) ==
  IF IsNumber(obj.ts)
    THEN << [real |-> TRUE, id |-> obj.id, ts |-> obj.ts,
             pipeline |-> appendTag(obj.pipeline, "minr")] >>
    ELSE <<>>

minrateReal(obj, now) ==
  << [real |-> TRUE, id |-> obj.id,
      ts |-> IF IsNumber(obj.ts) THEN obj.ts ELSE Num(now),
      pipeline |-> appendTag(obj.pipeline, "minr")] >>

\* emitClone: the new lastLogicalTs
cloneLogicalTs(now) ==
  JsPlus(IF ~NumberIsFinite(lastLogicalTs) THEN Num(now) ELSE lastLogicalTs,
         intervalMs)

MinrateInit ==
  /\ \E cli \in MinrateCli :
       /\ intervalMs = ResolveIntervalMs(cli)
       /\ minExited = ~MinrateCliValid(cli)
  /\ lastMessage = NoMsg
  /\ lastLogicalTs = TsNone
  /\ lastEmitWall = 0
  /\ minNow = 0
  /\ minFired = FALSE
  /\ minIn = <<>>
  /\ minOut = <<>>
  /\ minLastOutWall = -1

\* safeRead callback
MinrateRead(ts) ==
  /\ ~minExited
  /\ Len(minIn) < MaxMinReal
  /\ LET obj == [id |-> Len(minIn) + 1, ts |-> ts, pipeline |-> <<>>]
         out == minrateReal(obj, minNow)
     IN /\ minIn' = Append(minIn, obj)
        /\ lastLogicalTs' = IF IsNumber(ts) THEN ts ELSE Num(minNow)
        /\ minOut' = minOut \o out
        /\ lastMessage' =
             [id |-> obj.id,
              ts |-> IF IsNumber(ts) THEN ts ELSE Num(minNow),
              pipeline |-> appendTag(obj.pipeline, "minr")]
        /\ lastEmitWall' = minNow
        /\ minLastOutWall' = IF out # <<>> THEN minNow ELSE minLastOutWall
  /\ UNCHANGED <<intervalMs, minExited, minNow, minFired>>
  /\ UNCHANGED minrateRest

\* setInterval callback, due at every multiple of the watchdog period
MinrateWatchdog ==
  /\ ~minExited
  /\ minNow > 0 /\ minNow % WatchdogPeriod = 0 /\ ~minFired
  /\ minFired' = TRUE
  /\ IF lastMessage # NoMsg /\ minNow - lastEmitWall >= ToNumber(intervalMs)
       THEN /\ lastLogicalTs' = cloneLogicalTs(minNow)
            /\ minOut' = Append(minOut,
                 [real |-> FALSE, id |-> lastMessage.id,
                  ts |-> cloneLogicalTs(minNow),
                  pipeline |-> lastMessage.pipeline])
            /\ lastEmitWall' = minNow
            /\ minLastOutWall' = minNow
       ELSE UNCHANGED <<lastLogicalTs, minOut, lastEmitWall, minLastOutWall>>
  /\ UNCHANGED <<intervalMs, minExited, lastMessage, minNow, minIn>>
  /\ UNCHANGED minrateRest

\* one millisecond passes; a due timer callback runs before time moves on
MinrateTick ==
  /\ ~minExited
  /\ minNow < MaxMinNow
  /\ (minNow > 0 /\ minNow % WatchdogPeriod = 0) => minFired
  /\ minNow' = minNow + 1
  /\ minFired' = FALSE
  /\ UNCHANGED <<intervalMs, minExited, lastMessage, lastLogicalTs, lastEmitWall,
                 minIn, minOut, minLastOutWall>>
  /\ UNCHANGED minrateRest

MinrateNext ==
  \/ \E ts \in MinTs : MinrateRead(ts)
  \/ MinrateWatchdog
  \/ MinrateTick


(***************************************************************************)
(* tmcp-control-dedup.js                                                   *)
(***************************************************************************)
MaxDedupRecs == 3   \* records read by dedup

\* values of a data field
\*   k = "absent" : the key is not in data (reads as undefined)
\*   k = "null"   : null
\*   k = "num"    : the number n
\*   k = "str"    : a string (the model has one string value)
\*   k = "obj"    : a nested mapping with the keys in sub, out of
\*                  "v" (the number v) and "d" (a mapping again)
DAbsent == [k |-> "absent", n |-> 0, sub |-> {}, v |-> 0]
DNull == [k |-> "null", n |-> 0, sub |-> {}, v |-> 0]
DNum(n) == [k |-> "num", n |-> n, sub |-> {}, v |-> 0]
DStr == [k |-> "str", n |-> 0, sub |-> {}, v |-> 0]
DObj(sub, v) == [k |-> "obj", n |-> 0, sub |-> sub, v |-> v]

DedupKeys == {"a", "t", "o"}
DData(a, t, o) == [a |-> a, t |-> t, o |-> o]

\* the dedup block: ignore_fields, check_fields (given or not), numeric_tolerance
DedupCfg(ign, given, chk, tol) ==
  [ignore_fields |-> ign, check_given |-> given, check_fields |-> chk,
   numeric_tolerance |-> tol]

DedupConfigs ==
  { DedupCfg({}, FALSE, {}, 0),
    DedupCfg({"t"}, FALSE, {}, 0),
    DedupCfg({}, FALSE, {}, 1),
    DedupCfg({}, TRUE, {"a", "o"}, 0) }

DedupData ==
  { DData(DNum(0), DNum(1), DAbsent),
    DData(DNum(1), DNum(1), DAbsent),
    DData(DNum(1), DNum(2), DAbsent),
    DData(DNum(2), DNum(2), DAbsent),
    DData(DNum(2), DAbsent, DObj({"v"}, 1)),
    DData(DNum(2), DAbsent, DObj({"v"}, 2)),
    DData(DStr, DNull, DObj({"v", "d"}, 1)),
    DData(DAbsent, DAbsent, DAbsent) }

IGNORE_FIELDS == dedupCfg.ignore_fields
NUM_TOL == dedupCfg.numeric_tolerance

\* Object.keys(curr)
DataKeys(data) == {k \in DedupKeys : data[k].k # "absent"}

computeComparisonFields(curr) ==
  (IF dedupCfg.check_given THEN dedupCfg.check_fields ELSE DataKeys(curr))
    \ IGNORE_FIELDS

\* a === b on two values of distinct records: two mappings are never the
\* same object
StrictEqual(a, b) == a.k # "obj" /\ b.k # "obj" /\ a = b

isEqualWithTolerance(a, b) ==
  IF a.k = "num" /\ b.k = "num" THEN Abs(a.n - b.n) <= NUM_TOL
  ELSE StrictEqual(a, b)

\* the per-field body of the second loop: TRUE when field k differs
FieldChanged(vCurr, vPrev) ==
  IF vCurr.k # "obj" \/ vPrev.k # "obj"
    THEN ~isEqualWithTolerance(vCurr, vPrev)
    ELSE \/ Cardinality(vCurr.sub) # Cardinality(vPrev.sub)
         \/ \E sub \in vCurr.sub :
              \/ sub \notin vPrev.sub
              \/ sub = "v" /\ ~isEqualWithTolerance(DNum(vCurr.v), DNum(vPrev.v))
              \/ sub = "d" /\ ~isEqualWithTolerance(DObj({}, 0), DObj({}, 0))

hasMeaningfulChange(curr) ==
  IF ~haveLast THEN TRUE
  ELSE LET fields == computeComparisonFields(curr)
       IN \/ \E k \in fields : lastData[k].k = "absent"
          \/ \E k \in fields : FieldChanged(curr[k], lastData[k])

dedupNextLast_Received(last, curr, emitted) == curr

\* lastData after a record: structuredClone(curr) when it was written
dedupNextLast(last, curr, emitted) == IF emitted THEN curr ELSE last

DedupInit ==
  /\ dedupCfg \in DedupConfigs
  /\ lastData = DData(DAbsent, DAbsent, DAbsent)
  /\ haveLast = FALSE
  /\ dedIn = <<>>
  /\ dedOut = <<>>

\* safeRead callback (main loop)
DedupRead(data) ==
  /\ Len(dedIn) < MaxDedupRecs
  /\ LET idx == Len(dedIn) + 1
         emitted == hasMeaningfulChange(data)
     IN /\ dedIn' = Append(dedIn, data)
        /\ dedOut' = IF emitted
                       THEN Append(dedOut, [idx |-> idx, data |-> data,
                                            pipeline |-> appendTag(<<>>, "dup")])
                       ELSE dedOut
        /\ lastData' = dedupNextLast(lastData, data, emitted)
        /\ haveLast' = (haveLast \/ emitted)
  /\ UNCHANGED dedupCfg
  /\ UNCHANGED dedupRest

DedupNext == \E data \in DedupData : DedupRead(data)


(***************************************************************************)
(* tmcp-control-split-streams.js                                           *)
(***************************************************************************)
MaxSplitRecs == 2   \* records read by split
MaxSplitNow == 1000 \* last wall-clock instant (ms) of the split model

RETRY_MS == 500
SideIdx == 1..2

\* handleWriteError(err, policy): what becomes of a failed write
\*   "terminate" : terminateProcess, "suppressed" : logged and dropped,
\*   "throw" : rethrown to the caller (sync), "logged" : logError (async)
handleWriteError(code, channelLabel, exitOnClose, retry, isFD, sync) ==
  IF exitOnClose /\ code \in {"EPIPE", "ERR_STREAM_DESTROYED"}
       /\ channelLabel \in {"stdout", "stderr"}
    THEN "terminate"
  ELSE IF isFD /\ retry /\ code \in {"EPIPE", "EAGAIN", "ENXIO"}
    THEN "suppressed"
  ELSE IF ~exitOnClose /\ code \in {"EPIPE", "ERR_STREAM_DESTROYED"}
    THEN "suppressed"
  ELSE IF sync THEN "throw" ELSE "logged"

writeSide_NoCatch(ch, code) ==
  IF ~ch.fd THEN "skipped"
  ELSE IF code = "ok" THEN "written"
  ELSE handleWriteError(code, "side", splPolicy.exitOnClose, splPolicy.retry,
                        TRUE, TRUE)

\* writeSide(ch, obj): code is what fs.writeSync does on ch.fd
writeSide(ch, code) ==
  IF ~ch.fd THEN "skipped"
  ELSE IF code = "ok" THEN "written"
  ELSE LET r == handleWriteError(code, "side", splPolicy.exitOnClose,
                                 splPolicy.retry, TRUE, TRUE)
       IN IF r = "throw" THEN "warned" ELSE r

tryOpenChannel_RetryAll(ch, target, now) ==
  IF ch.retryTimer # -1 THEN ch
  ELSE IF target = "ok" THEN [fd |-> TRUE, retryTimer |-> -1]
  ELSE [fd |-> FALSE, retryTimer |-> now + RETRY_MS]

\* tryOpenChannel(ch); retryTimer = -1 stands for null
tryOpenChannel(ch, target, now) ==
  IF ch.retryTimer # -1 THEN ch
  ELSE IF target = "ok" THEN [fd |-> TRUE, retryTimer |-> -1]
  ELSE IF target = "ENXIO" THEN [fd |-> FALSE, retryTimer |-> now + RETRY_MS]
  ELSE [fd |-> FALSE, retryTimer |-> -1]

\* module start: ensureSidePath (exits when a path can neither be stat'ed
\* nor created), then tryOpenChannel for every channel
SplitInit ==
  /\ splTarget \in [SideIdx -> {"ok", "ENXIO", "EACCES", "nopath"}]
  /\ splPolicy \in {[exitOnClose |-> FALSE, retry |-> TRUE],
                    [exitOnClose |-> TRUE, retry |-> FALSE]}
  /\ splExited = (\E i \in SideIdx : splTarget[i] = "nopath")
  /\ channels = [i \in SideIdx |->
       IF splExited THEN [fd |-> FALSE, retryTimer |-> -1]
       ELSE tryOpenChannel([fd |-> FALSE, retryTimer |-> -1], splTarget[i], 0)]
  /\ splLastOpen = [i \in SideIdx |-> [res |-> splTarget[i], at |-> 0]]
  /\ splNow = 0
  /\ splIn = <<>>
  /\ splOut = <<>>
  /\ splSide = [i \in SideIdx |-> <<>>]

\* safeRead callback: tag, write to stdout, then writeSide for every channel
SplitRead(codes) ==
  /\ ~splExited
  /\ Len(splIn) < MaxSplitRecs
  /\ \A i \in SideIdx : ~channels[i].fd => codes[i] = "ok"
  /\ LET idx == Len(splIn) + 1
         res == [i \in SideIdx |-> writeSide(channels[i], codes[i])]
     IN /\ splIn' = Append(splIn, [idx |-> idx,
                                   open |-> [i \in SideIdx |-> channels[i].fd],
                                   code |-> codes])
        /\ splOut' = Append(splOut, [idx |-> idx, pipeline |-> appendTag(<<>>, "spl")])
        /\ splSide' = [i \in SideIdx |->
                         IF res[i] = "written" THEN Append(splSide[i], idx)
                         ELSE splSide[i]]
        /\ splExited' = \E i \in SideIdx : res[i] \in {"terminate", "throw"}
  /\ UNCHANGED <<channels, splPolicy, splTarget, splLastOpen, splNow>>
  /\ UNCHANGED splitRest

\* the retry timer of channel i fires: retryTimer = null; tryOpenChannel(ch)
SplitRetry(i) ==
  /\ ~splExited
  /\ channels[i].retryTimer # -1 /\ channels[i].retryTimer <= splNow
  /\ channels' = [channels EXCEPT ![i] =
       tryOpenChannel([@ EXCEPT !.retryTimer = -1], splTarget[i], splNow)]
  /\ splLastOpen' = [splLastOpen EXCEPT ![i] = [res |-> splTarget[i], at |-> splNow]]
  /\ UNCHANGED <<splPolicy, splTarget, splExited, splNow, splIn, splOut, splSide>>
  /\ UNCHANGED splitRest

\* the environment changes what open() of target i returns (a reader
\* attaches to the FIFO, permissions change)
SplitTargetChange(i, t) ==
  /\ ~splExited
  /\ splTarget[i] # t
  /\ splTarget' = [splTarget EXCEPT ![i] = t]
  /\ UNCHANGED <<channels, splPolicy, splLastOpen, splExited, splNow, splIn,
                 splOut, splSide>>
  /\ UNCHANGED splitRest

\* wall-clock time passes; a due timer runs before time moves on
SplitTick ==
  /\ ~splExited
  /\ splNow + RETRY_MS \div 2 <= MaxSplitNow
  /\ \A i \in SideIdx : channels[i].retryTimer = -1 \/ channels[i].retryTimer > splNow
  /\ splNow' = splNow + RETRY_MS \div 2
  /\ UNCHANGED <<channels, splPolicy, splTarget, splLastOpen, splExited, splIn,
                 splOut, splSide>>
  /\ UNCHANGED splitRest

SplitNext ==
  \/ \E codes \in [SideIdx -> {"ok", "EPIPE", "EIO"}] : SplitRead(codes)
  \/ \E i \in SideIdx : SplitRetry(i)
  \/ \E i \in SideIdx, t \in {"ok", "ENXIO", "EACCES"} : SplitTargetChange(i, t)
  \/ SplitTick


(***************************************************************************)
(* tmcp-annotate-state-machine.js                                          *)
(***************************************************************************)
MaxSmRecs == 3      \* records read by the state machine
MaxSmNow == 8       \* last wall-clock instant of the state-machine model

\* a compiled `when`: a comparison of a reference with a number, the
\* literal true, or an expression that failed to compile (always false)
Cmp(ref, op, n) == [k |-> "cmp", ref |-> ref, op |-> op, n |-> n]
WTrue == [k |-> "true", ref |-> "", op |-> "", n |-> 0]
WBad == [k |-> "bad", ref |-> "", op |-> "", n |-> 0]
\* a transition; target "" stands for a missing action.goto
Tr(when, target) == [when |-> when, target |-> target]

\* configurations: two instances reading data.a and data.b under the alias
\* pos; states idle, active, alarm; one goto names the undeclared state ghost
SmConfigs ==
  { [passes |-> 1, initialState |-> <<"idle", "active">>,
     states |-> [idle |-> << Tr(Cmp("data.pos", "<=", 0), "idle"),
                             Tr(Cmp("data.pos", ">", 0), "active") >>,
                 active |-> << Tr(Cmp("data.pos", "<=", 0), "idle"),
                               Tr(Cmp("instance.timeInStateMs", ">=", 2), "alarm") >>,
                 alarm |-> << >>]],
    [passes |-> 2, initialState |-> <<"idle", "idle">>,
     states |-> [idle |-> << Tr(Cmp("data.pos", "<=", 0), "idle"),
                             Tr(Cmp("data.pos", ">", 0), "active") >>,
                 active |-> << Tr(WTrue, ""),
                               Tr(Cmp("instancesInState.active", ">=", 2), "alarm"),
                               Tr(Cmp("data.pos", ">", 0), "idle") >>,
                 alarm |-> << Tr(WBad, "idle"),
                              Tr(Cmp("instance.timeInStateMs", ">=", 2), "idle") >>]],
    [passes |-> 1, initialState |-> <<"idle", "idle">>,
     states |-> [idle |-> << Tr(Cmp("data.pos", ">", 0), "ghost") >>,
                 active |-> << >>,
                 alarm |-> << >>]],
    [passes |-> 1, initialState |-> <<"idle", "active">>,
     states |-> [idle |-> << Tr(Cmp("data.pos", ">", 0), "active") >>,
                 active |-> << Tr(Cmp("instancesInState.active", ">=", 2), "alarm") >>,
                 alarm |-> << >>]] }

SmInstances == 1..2
\* instancesCfg[inst].inputs: alias pos -> data field
SmInputs == <<"a", "b">>
\* data of the records: fields a, b (-1: field absent)
SmData == {[a |-> 1, b |-> 0], [a |-> 0, b |-> 1], [a |-> -1, b |-> 1]}
SmTs == {TsNone, Num(0), Num(4), Num(5)}

\* resolveValueRef: -1 stands for null
resolveValueRef(ref, ctx) ==
  CASE ref = "data.pos" -> ctx.data[SmInputs[ctx.inst]]
    [] ref = "instance.timeInStateMs" -> ctx.timeInStateMs
    [] ref = "instancesInState.active" -> ctx.instancesInState
    [] OTHER -> -1

compareValues(op, a, b) ==
  IF a = -1 \/ b = -1 THEN FALSE
  ELSE CASE op = ">" -> a > b
         [] op = ">=" -> a >= b
         [] op = "<=" -> a <= b
         [] OTHER -> FALSE

\* tr.when(ctx) of a compiled transition
whenHolds(when, ctx) ==
  CASE when.k = "cmp" -> compareValues(when.op, resolveValueRef(when.ref, ctx), when.n)
    [] when.k = "true" -> TRUE
    [] OTHER -> FALSE

\* the transition loop: target of the first transition whose when holds and
\* whose target is a string, else the current state
smNextState(current, ctx) ==
  LET trs == smCfg.states[current]
      F == {i \in 1..Len(trs) : whenHolds(trs[i].when, ctx) /\ trs[i].target # ""}
  IN IF F = {} THEN current
     ELSE trs[CHOOSE i \in F : \A j \in F : i <= j].target

smApply_Touch(rt, next, nowMs) ==
  [state |-> next, enteredAtMs |-> nowMs, crash |-> FALSE]

\* if (next !== current) { rt.state = next; rt.enteredAtMs = nowMs }
smApply(rt, next, nowMs) ==
  IF next # rt.state
    THEN [state |-> next, enteredAtMs |-> nowMs, crash |-> FALSE]
    ELSE rt

smCtx(rt, inst, data, nowMs, count) ==
  [data |-> data, inst |-> inst, stateName |-> rt.state,
   timeInStateMs |-> nowMs - (IF rt.enteredAtMs # 0 THEN rt.enteredAtMs ELSE nowMs),
   instancesInState |-> count]

RECURSIVE smPasses(_, _, _, _, _, _)
\* the pass loop of one instance; compiledStates[current] of an undeclared
\* state is undefined and reading its transitions throws
smPasses(rt, inst, data, nowMs, count, pass) ==
  IF pass >= smCfg.passes THEN rt
  ELSE IF rt.state \notin DOMAIN smCfg.states THEN [rt EXCEPT !.crash = TRUE]
  ELSE LET next == smNextState(rt.state, smCtx(rt, inst, data, nowMs, count))
       IN IF next # rt.state
            THEN smPasses(smApply(rt, next, nowMs), inst, data, nowMs, count, pass + 1)
            ELSE smApply(rt, next, nowMs)

instancesInState_Live(before, current) ==
  Cardinality({i \in SmInstances : current[i].state = "active"})

\* instancesInState[st], counted from the instances' states once per record,
\* before the instance loop; `current` is the runtime map the loop has
\* reached, which the count does not look at
instancesInState(before, current) ==
  Cardinality({i \in SmInstances : before[i].state = "active"})

RECURSIVE smInstanceLoop(_, _, _, _, _, _)
\* for (const inst of instanceNames): the runtime map after the instances
\* inst..last have been processed in order
smInstanceLoop(before, current, inst, last, data, nowMs) ==
  IF inst > last THEN current
  ELSE smInstanceLoop(before,
         [current EXCEPT ![inst] =
            smPasses(current[inst], inst, data, nowMs,
                     instancesInState(before, current), 0)],
         inst + 1, last, data, nowMs)

SmInit ==
  /\ smCfg \in SmConfigs
  /\ instanceRuntime = [i \in SmInstances |->
       [state |-> smCfg.initialState[i], enteredAtMs |-> 0, crash |-> FALSE]]
  /\ smExited = FALSE
  /\ smNow = 7
  /\ smIn = <<>>
  /\ smOut = <<>>

\* safeRead callback (main loop)
SmRead(data, ts) ==
  /\ ~smExited
  /\ Len(smIn) < MaxSmRecs
  /\ LET nowMs == IF IsNumber(ts) THEN ts.n ELSE smNow
         count == instancesInState(instanceRuntime, instanceRuntime)
         after == smInstanceLoop(instanceRuntime, instanceRuntime, 1,
                                 Cardinality(SmInstances), data, nowMs)
         \* observed: the count in the context of each instance's evaluations
         seen == [i \in SmInstances |->
                    instancesInState(instanceRuntime,
                      smInstanceLoop(instanceRuntime, instanceRuntime, 1, i - 1,
                                     data, nowMs))]
         \* observed: timeInStateMs in the context of each instance's first pass
         timeIn == [i \in SmInstances |->
                      smCtx(instanceRuntime[i], i, data, nowMs, count).timeInStateMs]
         crashed == \E i \in SmInstances : after[i].crash
         \* observed: the transitions of the state before the record whose
         \* when evaluated true in the first pass
         conds == [i \in SmInstances |->
                     IF instanceRuntime[i].state \notin DOMAIN smCfg.states THEN {}
                     ELSE {t \in 1..Len(smCfg.states[instanceRuntime[i].state]) :
                             whenHolds(smCfg.states[instanceRuntime[i].state][t].when,
                                       smCtx(instanceRuntime[i], i, data, nowMs, count))}]
     IN /\ smIn' = Append(smIn, [data |-> data, nowMs |-> nowMs, conds |-> conds,
                                 seen |-> seen, timeIn |-> timeIn,
                                 before |-> instanceRuntime,
                                 after |-> IF crashed THEN instanceRuntime ELSE after])
        /\ smExited' = crashed
        /\ instanceRuntime' = IF crashed THEN instanceRuntime ELSE after
        /\ smOut' = IF crashed THEN smOut
                    ELSE Append(smOut, [idx |-> Len(smIn) + 1,
                                        state |-> [i \in SmInstances |-> after[i].state],
                                        pipeline |-> appendTag(<<>>, "sm")])
  /\ UNCHANGED <<smCfg, smNow>>
  /\ UNCHANGED smRest

\* wall-clock time passes between callbacks
SmTick ==
  /\ ~smExited
  /\ smNow < MaxSmNow
  /\ smNow' = smNow + 1
  /\ UNCHANGED <<smCfg, instanceRuntime, smExited, smIn, smOut>>
  /\ UNCHANGED smRest

SmNext ==
  \/ \E data \in SmData, ts \in SmTs : SmRead(data, ts)
  \/ SmTick


(***************************************************************************)
(* tmcp-transformer-reduce.js                                              *)
(***************************************************************************)
MaxRedRecs == 3     \* records read by the reducer

\* JSON values of the working map; RUndef is an absent key
RUndef == [k |-> "undef", n |-> 0]
RNull == [k |-> "null", n |-> 0]
RNum(n) == [k |-> "num", n |-> n]
RStr == [k |-> "str", n |-> 0]
RBool(b) == [k |-> "bool", n |-> IF b THEN 1 ELSE 0]
\* no value: the call does not return
RHang == [k |-> "hang", n |-> 0]

\* a rule of reduce.outputs; `inputs` lists the source fields: {src} of a
\* copy, the array of a sum, the values of the alias mapping otherwise
\* an expr/condition rule with its expression: "x > 0", "x >" (does not
\* compile), "nope.z" (throws a ReferenceError when evaluated) or
\* "spin()", short for (() => { while (true) {} })(), which never returns
ExprRule(name, op, inputs, expr) ==
  [name |-> name, op |-> op, inputs |-> inputs, temp |-> FALSE, retain |-> FALSE,
   expr |-> expr]
Rule(name, op, inputs, temp, retain) ==
  [name |-> name, op |-> op, inputs |-> inputs, temp |-> temp, retain |-> retain,
   expr |-> "x > 0"]

RedConfigs ==
  { [passes |-> 1, missing |-> "fail", forward_policy |-> "known",
     outputs |-> << Rule("s", "sum", <<"a", "b">>, FALSE, TRUE),
                    Rule("tmp", "copy", <<"a">>, TRUE, FALSE),
                    Rule("c", "condition", <<"s">>, FALSE, FALSE) >>],
    [passes |-> 2, missing |-> "ignore", forward_policy |-> "known",
     outputs |-> << Rule("p", "passthrough", <<"q">>, FALSE, FALSE),
                    Rule("q", "copy", <<"b">>, FALSE, FALSE),
                    Rule("r__k", "copy", <<"a">>, FALSE, FALSE) >>],
    [passes |-> 2, missing |-> "fail", forward_policy |-> "all",
     outputs |-> << Rule("p", "passthrough", <<"q">>, FALSE, FALSE),
                    Rule("q", "copy", <<"a">>, FALSE, FALSE) >>],
    [passes |-> 1, missing |-> "zero", forward_policy |-> "all",
     outputs |-> << Rule("s", "sum", <<"a", "b">>, FALSE, TRUE),
                    Rule("d", "sum", <<"s__prev", "a">>, TRUE, FALSE) >>],
    [passes |-> 1, missing |-> "ignore", forward_policy |-> "all",
     outputs |-> << ExprRule("p", "expr", <<"a">>, "x >"),
                    ExprRule("q", "expr", <<"a">>, "nope.z"),
                    ExprRule("c", "condition", <<"a">>, "nope.z"),
                    ExprRule("d", "condition", <<"a">>, "x >") >>],
    [passes |-> 1, missing |-> "fail", forward_policy |-> "all",
     outputs |-> << ExprRule("c", "condition", <<"a">>, "x >"),
                    ExprRule("p", "expr", <<"a">>, "x > 0") >>],
    [passes |-> 1, missing |-> "ignore", forward_policy |-> "all",
     outputs |-> << ExprRule("p", "expr", <<"a">>, "spin()") >>],
    [passes |-> 1, missing |-> "fail", forward_policy |-> "all",
     outputs |-> << Rule("s", "sum", <<"b">>, FALSE, TRUE),
                    Rule("q", "copy", <<"a">>, FALSE, FALSE) >>] }

RedDataKeys == {"a", "b", "z", "u__v"}
RedKeys == RedDataKeys \cup {"s", "tmp", "c", "p", "q", "r__k", "d", "s__prev", "__timestamp"}
\* key.includes("__") over RedKeys
DunderKeys == {"r__k", "s__prev", "__timestamp", "u__v"}
PrevKey(name) == name \o "__prev"

RData(a, b, z) == [a |-> a, b |-> b, z |-> z, u__v |-> RUndef]
\* the records: obj.data and meta.timestamp
RedRecs ==
  { [data |-> RData(RNum(2), RNum(1), RUndef), ts |-> RNum(5)],
    [data |-> [RData(RNum(2), RNum(1), RNum(9)) EXCEPT !.u__v = RNum(4)], ts |-> RNull],
    [data |-> RData(RNum(3), RUndef, RNum(9)), ts |-> RNum(5)],
    [data |-> RData(RUndef, RNum(1), RUndef), ts |-> RNum(5)],
    [data |-> RData(RStr, RNull, RUndef), ts |-> RNum(5)],
    [data |-> RData(RUndef, RUndef, RUndef), ts |-> RNull] }

RECURSIVE op_sum(_, _, _)
\* sum of the numeric inputs from the i-th on; under "zero" a missing one
\* counts 0, under "ignore" it is skipped
op_sum(inputs, data, i) ==
  IF i > Len(inputs) THEN 0
  ELSE (IF data[inputs[i]].k = "num" THEN data[inputs[i]].n ELSE 0)
       + op_sum(inputs, data, i + 1)

\* the compiled expression of the condition rules: x > 0
CondExpr(x) == (x.k = "num" /\ x.n > 0) \/ (x.k = "bool" /\ x.n = 1)

computeOutput(rule, data, missingMode) ==
  IF rule.op = "copy" THEN
    LET v == data[rule.inputs[1]]
    IN IF v # RUndef THEN v
       ELSE IF missingMode = "zero" THEN RNum(0) ELSE RNull
  ELSE IF rule.op = "sum" THEN
    IF missingMode = "fail"
       /\ \E i \in 1..Len(rule.inputs) : data[rule.inputs[i]].k # "num"
      THEN RNull
      ELSE RNum(op_sum(rule.inputs, data, 1))
  ELSE
    LET usable(v) == v.k \in {"num", "bool", "str"}
        hasMissing == \E i \in 1..Len(rule.inputs) : ~usable(data[rule.inputs[i]])
        first == data[rule.inputs[1]]
        local == IF usable(first) THEN first
                 ELSE IF missingMode = "zero" THEN RNum(0) ELSE RUndef
    IN IF hasMissing /\ missingMode = "fail" THEN RNull
       ELSE IF rule.op \in {"expr", "condition"}
               /\ hasMissing /\ missingMode = "ignore" THEN RNull
       ELSE IF rule.expr = "spin()" THEN
         \* rule._compiled(locals, Math) is a plain call, nothing interrupts it
         RHang
       ELSE IF rule.op = "expr" THEN
         \* rule._compiled throws, or safeEval catches the compile error
         IF rule.expr # "x > 0" THEN RNull ELSE RBool(CondExpr(local))
       ELSE IF rule.op = "condition" THEN
         IF rule.expr = "nope.z" THEN RNull
         ELSE IF rule.expr = "x >" THEN RBool(FALSE)   \* !!safeEval(...) = !!null
         ELSE RBool(CondExpr(local))
       ELSE IF rule.op = "passthrough" THEN
         IF local = RUndef THEN RNull ELSE local
       ELSE RNull

dropRecord_Never(value, missingMode) == FALSE

\* if (value === null && missingMode === "fail") return;
dropRecord(value, missingMode) == value = RNull /\ missingMode = "fail"

\* ensurePrevInitialized, then workingData[name] is already set
ensurePrevInitialized(name, workingData) ==
  IF workingData[PrevKey(name)] # RUndef THEN workingData
  ELSE [workingData EXCEPT ![PrevKey(name)] = workingData[name]]

RECURSIVE redRun(_, _, _)
\* the multi-pass loop from step i on (pass i \div n, rule i % n + 1)
redRun(workingData, ret, i) ==
  LET n == Len(reduceCfg.outputs)
  IN IF i >= reduceCfg.passes * n
       THEN [data |-> workingData, retained |-> ret, dropped |-> FALSE, hung |-> FALSE]
     ELSE LET rule == reduceCfg.outputs[(i % n) + 1]
              value == computeOutput(rule, workingData, reduceCfg.missing)
              wd1 == [workingData EXCEPT ![rule.name] = value]
          IN IF value = RHang
               THEN [data |-> workingData, retained |-> ret, dropped |-> TRUE, hung |-> TRUE]
             ELSE IF dropRecord(value, reduceCfg.missing)
               THEN [data |-> workingData, retained |-> ret, dropped |-> TRUE, hung |-> FALSE]
             ELSE IF rule.retain
               THEN redRun(ensurePrevInitialized(rule.name, wd1),
                           [ret EXCEPT ![PrevKey(rule.name)] = value], i + 1)
             ELSE redRun(wd1, ret, i + 1)

\* the keys of obj.data after the temp/internal filter and the forward policy
forwardKeys(workingData) ==
  LET rules == reduceCfg.outputs
      temp == {rules[j].name : j \in {j \in 1..Len(rules) : rules[j].temp}}
      known == {rules[j].name : j \in 1..Len(rules)}
      entries == {key \in RedKeys : /\ workingData[key] # RUndef
                                    /\ key \notin DunderKeys
                                    /\ key \notin temp}
  IN IF reduceCfg.forward_policy = "known" THEN entries \cap known ELSE entries

RedInit ==
  /\ reduceCfg \in RedConfigs
  /\ retained = [key \in RedKeys |-> RUndef]
  /\ redHung = FALSE
  /\ redIn = <<>>
  /\ redOut = <<>>

\* safeRead callback (main loop)
RedRead(rec) ==
  /\ ~redHung
  /\ Len(redIn) < MaxRedRecs
  /\ LET workingData == [key \in RedKeys |->
           IF key = "__timestamp" THEN rec.ts
           ELSE IF key \in RedDataKeys /\ rec.data[key] # RUndef THEN rec.data[key]
           ELSE retained[key]]
         run == redRun(workingData, retained, 0)
     IN /\ redIn' = Append(redIn, [data |-> rec.data, ts |-> rec.ts,
                                   seeded |-> {key \in RedKeys : retained[key] # RUndef},
                                   working |-> run.data])
        /\ retained' = run.retained
        /\ redHung' = run.hung
        /\ redOut' = IF run.dropped THEN redOut
                     ELSE Append(redOut,
                            [idx |-> Len(redIn) + 1,
                             keys |-> forwardKeys(run.data),
                             data |-> [key \in RedKeys |->
                                         IF key \in forwardKeys(run.data)
                                           THEN run.data[key] ELSE RUndef],
                             pipeline |-> appendTag(<<>>, "red")])
  /\ UNCHANGED reduceCfg
  /\ UNCHANGED redRest

RedNext == \E rec \in RedRecs : RedRead(rec)


(***************************************************************************)
(* lib/pipeline-stream.js: channel policies, safeWrite errors, EOF         *)
(***************************************************************************)
MaxChanCalls == 1   \* safeRead/safeWrite calls

\* an optional boolean of the options object or of an override map
Tri == {"none", "true", "false"}
ChanIds == {"stdin", "stdout", "stderr", "side:0"}
NoOverride == [c \in ChanIds |-> "none"]

\* --exit-on-close / --retry as parsed by parseChannelPoliciesOnce
ChanGlobals ==
  { [exit |-> NoOverride, retry |-> NoOverride],
    [exit |-> [NoOverride EXCEPT !["stdout"] = "false", !["side:0"] = "true"],
     retry |-> NoOverride],
    [exit |-> [NoOverride EXCEPT !["stdin"] = "false", !["stderr"] = "true"],
     retry |-> [NoOverride EXCEPT !["side:0"] = "true"]],
    [exit |-> [NoOverride EXCEPT !["side:0"] = "false"], retry |-> NoOverride] }

\* fdOrStream: undefined, a numeric descriptor, or a stream object (a FIFO)
WriteTargets == {"undefined", "fd1", "fd2", "fd3", "fifo"}
ReadTargets == {"undefined", "fd0", "fd3"}
ChanOptions ==
  [channelId : {"", "side:0"}, exitOnClose : Tri, linger : Tri, retry : {"none", "true"}]
WriteCodes == {"ok", "EPIPE", "EIO"}

isStdoutLike(target) == target \in {"undefined", "fd1"}
isStderrLike(target) == target = "fd2"
isStdinLike(target) == target \in {"undefined", "fd0"}

\* "" stands for undefined
inferChannelId(fdOrStream, explicitChannelId, direction) ==
  IF explicitChannelId # "" THEN explicitChannelId
  ELSE IF direction = "read"
    THEN (IF isStdinLike(fdOrStream) THEN "stdin" ELSE "")
  ELSE IF isStdoutLike(fdOrStream) THEN "stdout"
  ELSE IF isStderrLike(fdOrStream) THEN "stderr"
  ELSE ""

resolveChannelPolicies_LingerLast(direction, fdOrStream, options) ==
  LET channelId == inferChannelId(fdOrStream, options.channelId, direction)
      def == IF direction = "read" THEN channelId = "stdin"
             ELSE channelId \in {"stdout", "stderr"}
      module == IF options.linger # "none" THEN options.linger # "true"
                ELSE IF options.exitOnClose # "none" THEN options.exitOnClose = "true"
                ELSE def
  IN [channelId |-> channelId,
      exitOnClose |-> IF channelId # "" /\ chanGlobal.exit[channelId] # "none"
                        THEN chanGlobal.exit[channelId] = "true" ELSE module,
      retry |-> IF channelId # "" /\ chanGlobal.retry[channelId] # "none"
                  THEN chanGlobal.retry[channelId] = "true"
                  ELSE options.retry = "true"]

resolveChannelPolicies(direction, fdOrStream, options) ==
  LET channelId == inferChannelId(fdOrStream, options.channelId, direction)
      def == IF direction = "read" THEN channelId = "stdin"
             ELSE channelId \in {"stdout", "stderr"}
      module == IF options.exitOnClose # "none" THEN options.exitOnClose = "true"
                ELSE IF options.linger # "none" THEN options.linger # "true"
                ELSE def
  IN [channelId |-> channelId,
      exitOnClose |-> IF channelId # "" /\ chanGlobal.exit[channelId] # "none"
                        THEN chanGlobal.exit[channelId] = "true" ELSE module,
      retry |-> IF channelId # "" /\ chanGlobal.retry[channelId] # "none"
                  THEN chanGlobal.retry[channelId] = "true"
                  ELSE options.retry = "true"]

NoPolicy == [set |-> FALSE, channelLabel |-> "", exitOnClose |-> FALSE, retry |-> FALSE]
NoCall ==
  [direction |-> "none", target |-> "", options |->
     [channelId |-> "", exitOnClose |-> "none", linger |-> "none", retry |-> "none"],
   policy |-> [channelId |-> "", exitOnClose |-> FALSE, retry |-> FALSE],
   code |-> "ok", outcome |-> "none"]

ChanInit ==
  /\ chanGlobal \in ChanGlobals
  /\ streamWritePolicies = [t \in {"undefined", "fifo"} |-> NoPolicy]
  /\ chanState = "running"
  /\ chanCount = 0
  /\ chanCall = NoCall

\* safeWrite(obj, fdOrStream, options) whose low-level write ends with `code`;
\* caught: the module calling safeWrite catches what it throws
ChanWrite(target, options, code) ==
  /\ chanState = "running"
  /\ chanCount < MaxChanCalls
  /\ LET policy == resolveChannelPolicies("write", target, options)
         channelLabel == IF policy.channelId # "" THEN policy.channelId ELSE "?"
         isFD == target \in {"fd1", "fd2", "fd3"}
         \* attachStreamErrorHandler: the first policy of a stream is kept
         stored == IF isFD \/ streamWritePolicies[target].set
                     THEN streamWritePolicies
                     ELSE [streamWritePolicies EXCEPT ![target] =
                             [set |-> TRUE, channelLabel |-> channelLabel,
                              exitOnClose |-> policy.exitOnClose,
                              retry |-> policy.retry]]
         outcome == IF code = "ok" THEN "written"
                    ELSE IF isFD
                      THEN handleWriteError(code, channelLabel, policy.exitOnClose,
                                            policy.retry, TRUE, TRUE)
                    ELSE handleWriteError(code, stored[target].channelLabel,
                                          stored[target].exitOnClose,
                                          stored[target].retry, FALSE, FALSE)
     IN /\ streamWritePolicies' = stored
        /\ chanCall' = [direction |-> "write", target |-> target, options |-> options,
                        policy |-> policy, code |-> code, outcome |-> outcome]
        /\ \E caught \in (IF outcome = "throw" THEN BOOLEAN ELSE {TRUE}) :
             chanState' = IF outcome = "terminate" THEN "terminated"
                          ELSE IF ~caught THEN "crashed"
                          ELSE "running"
  /\ chanCount' = chanCount + 1
  /\ UNCHANGED chanGlobal
  /\ UNCHANGED chanRest

\* safeRead(onRecord, fdOrStream, options) followed by the end of the stream
ChanReadEof(target, options) ==
  /\ chanState = "running"
  /\ chanCount < MaxChanCalls
  /\ LET policy == resolveChannelPolicies("read", target, options)
     IN /\ chanCall' = [direction |-> "read", target |-> target, options |-> options,
                        policy |-> policy, code |-> "ok",
                        outcome |-> IF policy.exitOnClose THEN "terminate" ELSE "eof"]
        /\ chanState' = IF policy.exitOnClose THEN "terminated" ELSE "running"
  /\ chanCount' = chanCount + 1
  /\ UNCHANGED <<chanGlobal, streamWritePolicies>>
  /\ UNCHANGED chanRest

ChanNext ==
  \/ \E target \in WriteTargets, options \in ChanOptions, code \in WriteCodes :
       ChanWrite(target, options, code)
  \/ \E target \in ReadTargets, options \in ChanOptions : ChanReadEof(target, options)


(***************************************************************************)
(* lib/pipeline-stream.js: safeRead (NDJSON stream parser, MsgPack)        *)
(***************************************************************************)
MaxReadChars == 6   \* characters (NDJSON) or objects (MsgPack) on the stream

\* NDJSON text: the digit 1, the letter x, the newline
RdChars == {"1", "x", "nl"}
RdChunks == {<<a>> : a \in RdChars} \cup {<<a, b>> : a \in RdChars, b \in RdChars}
\* MsgPack objects: two well-formed ones and a corrupt one
RdItems == {"g1", "g2", "bad"}

parseLine_Accept(line) ==
  IF line # <<>> /\ \A i \in 1..Len(line) : line[i] = "1"
    THEN (10 ^ Len(line) - 1) \div 9
    ELSE 0

\* parseLine(line): JSON.parse of a line over RdChars succeeds exactly on a
\* non-empty run of digits and gives its number; -1 stands for null
parseLine(line) ==
  IF line # <<>> /\ \A i \in 1..Len(line) : line[i] = "1"
    THEN (10 ^ Len(line) - 1) \div 9
    ELSE -1

RECURSIVE rdDrain(_, _, _)
\* the for(;;) loop of the data handler over buffer, scanning from position i:
\* every complete line is cut off, parsed and, if not null, delivered
rdDrain(buffer, i, delivered) ==
  IF i > Len(buffer) THEN [buffer |-> buffer, delivered |-> delivered]
  ELSE IF buffer[i] = "nl"
    THEN LET obj == parseLine(SubSeq(buffer, 1, i - 1))
         IN rdDrain(SubSeq(buffer, i + 1, Len(buffer)), 1,
                    IF obj # -1 THEN Append(delivered, obj) ELSE delivered)
  ELSE rdDrain(buffer, i + 1, delivered)

RdInit ==
  /\ rdProtocol \in {"ndjson", "msgpack"}
  /\ rdExitOnClose \in BOOLEAN
  /\ rdBuffer = <<>>
  /\ rdRecv = <<>>
  /\ rdDelivered = <<>>
  /\ rdDecoding = TRUE
  /\ rdState = "open"

\* stream.on("data", chunk)
RdData(chunk) ==
  /\ rdProtocol = "ndjson" /\ rdState = "open"
  /\ Len(rdRecv) + Len(chunk) <= MaxReadChars
  /\ LET r == rdDrain(rdBuffer \o chunk, 1, rdDelivered)
     IN /\ rdBuffer' = r.buffer
        /\ rdDelivered' = r.delivered
  /\ rdRecv' = rdRecv \o chunk
  /\ UNCHANGED <<rdProtocol, rdExitOnClose, rdDecoding, rdState>>
  /\ UNCHANGED rdRest

\* stream.on("end"): the tail is parsed (no trimming is needed over RdChars),
\* then handleEOF
RdEnd ==
  /\ rdProtocol = "ndjson" /\ rdState = "open"
  /\ LET obj == parseLine(rdBuffer)
     IN rdDelivered' = IF rdBuffer # <<>> /\ obj # -1
                         THEN Append(rdDelivered, obj) ELSE rdDelivered
  /\ rdState' = IF rdExitOnClose THEN "terminated" ELSE "ended"
  /\ UNCHANGED <<rdProtocol, rdExitOnClose, rdBuffer, rdRecv, rdDecoding>>
  /\ UNCHANGED rdRest

\* the stream carries one more MsgPack object; decodeMultiStream yields it to
\* the for-await loop or throws, which ends the loop in the catch block
RdItem(item) ==
  /\ rdProtocol = "msgpack" /\ rdState = "open"
  /\ Len(rdRecv) < MaxReadChars
  /\ rdRecv' = Append(rdRecv, item)
  /\ rdDelivered' = IF rdDecoding /\ item # "bad"
                      THEN Append(rdDelivered, IF item = "g1" THEN 1 ELSE 2)
                      ELSE rdDelivered
  /\ rdDecoding' = (rdDecoding /\ item # "bad")
  /\ UNCHANGED <<rdProtocol, rdExitOnClose, rdBuffer, rdState>>
  /\ UNCHANGED rdRest

\* the MsgPack stream ends: handleEOF runs only if the loop is still alive
RdItemsEnd ==
  /\ rdProtocol = "msgpack" /\ rdState = "open"
  /\ rdState' = IF rdDecoding /\ rdExitOnClose THEN "terminated" ELSE "ended"
  /\ UNCHANGED <<rdProtocol, rdExitOnClose, rdBuffer, rdRecv, rdDelivered, rdDecoding>>
  /\ UNCHANGED rdRest

RdNext ==
  \/ \E chunk \in RdChunks : RdData(chunk)
  \/ RdEnd
  \/ \E item \in RdItems : RdItem(item)
  \/ RdItemsEnd


(***************************************************************************)
(* lib/pipeline-core.js: normalizeObject, appendTag                        *)
(***************************************************************************)
\* a decoded value by its JSON kind; of a mapping, the kinds of its meta and
\* data members and, when meta can carry members, meta.pipeline
NoPipeline == [k |-> "absent", tags |-> << >>]
CoreValue(k, meta, data, pipeline) ==
  [k |-> k, meta |-> meta, data |-> data, pipeline |-> pipeline, wrapped |-> FALSE]
MemberKinds == {"absent", "null", "num", "arr", "obj"}
CoreInputs ==
  {CoreValue(k, "absent", "absent", NoPipeline) : k \in {"null", "bool", "num", "str", "arr"}}
  \cup {CoreValue("obj", meta, data, NoPipeline) :
          meta \in MemberKinds, data \in MemberKinds}
  \cup {CoreValue("obj", meta, data, pipeline) :
          meta \in {"obj"}, data \in MemberKinds,
          pipeline \in {[k |-> "str", tags |-> << >>], [k |-> "arr", tags |-> << >>],
                        [k |-> "arr", tags |-> <<"src">>],
                        [k |-> "arr", tags |-> <<"src", "flt">>]}}

\* typeof x === "object" && x: mappings and arrays
IsObjectLike(kind) == kind \in {"arr", "obj"}

normalizeObject(value) ==
  LET obj == IF ~IsObjectLike(value.k)
               THEN [k |-> "obj", meta |-> "obj", data |-> "obj",
                     pipeline |-> NoPipeline, wrapped |-> TRUE]
               ELSE value
      meta == IF IsObjectLike(obj.meta) THEN obj.meta ELSE "obj"
      pipeline == IF IsObjectLike(obj.meta) THEN obj.pipeline ELSE NoPipeline
  IN [k |-> obj.k,
      meta |-> meta,
      data |-> IF IsObjectLike(obj.data) THEN obj.data ELSE "obj",
      pipeline |-> IF pipeline.k = "arr" THEN pipeline ELSE [k |-> "arr", tags |-> << >>],
      wrapped |-> obj.wrapped]

coreAppendTag_Always(obj, tag) ==
  [obj EXCEPT !.pipeline =
     [k |-> "arr", tags |-> Append(IF @.k = "arr" THEN @.tags ELSE << >>, tag)]]

\* appendTag(obj.meta, tag) of pipeline-core.js on the whole object
coreAppendTag(obj, tag) ==
  IF ~doTag THEN obj
  ELSE [obj EXCEPT !.pipeline =
          [k |-> "arr", tags |-> appendTag(IF @.k = "arr" THEN @.tags ELSE << >>, tag)]]

CoreInit ==
  /\ coreIn \in CoreInputs
  /\ coreObj = coreIn
  /\ coreStep = "input"

\* parseLine / the MsgPack loop: normalizeObject(raw)
CoreRead ==
  /\ coreStep = "input"
  /\ coreObj' = normalizeObject(coreObj)
  /\ coreStep' = "read"
  /\ UNCHANGED <<coreIn, doTag>>
  /\ UNCHANGED coreRest

\* the module: appendTag(obj.meta, tag)
CoreTag ==
  /\ coreStep = "read"
  /\ coreObj' = coreAppendTag(coreObj, "mod")
  /\ coreStep' = "tagged"
  /\ UNCHANGED <<coreIn, doTag>>
  /\ UNCHANGED coreRest

\* safeWrite: canonical = normalizeObject(obj)
CoreWrite ==
  /\ coreStep = "tagged"
  /\ coreObj' = normalizeObject(coreObj)
  /\ coreStep' = "written"
  /\ UNCHANGED <<coreIn, doTag>>
  /\ UNCHANGED coreRest

CoreNext == CoreRead \/ CoreTag \/ CoreWrite


(***************************************************************************)
(* lib/pipeline-config.js: parseCLIOnce                                    *)
(***************************************************************************)
\* JavaScript values: undefined, the booleans, strings
JsUndefined == [t |-> "undefined", v |-> ""]
JsBool(b) == [t |-> "boolean", v |-> IF b THEN "true" ELSE "false"]
JsStr(str) == [t |-> "string", v |-> str]

\* registry entries: flags (expectsValue false) and value parameters
CliParams ==
  [expectsValue : {FALSE}, generateNegative : BOOLEAN, required : BOOLEAN,
   default : {JsUndefined, JsBool(TRUE), JsBool(FALSE)}]
  \cup [expectsValue : {TRUE}, generateNegative : {FALSE}, required : BOOLEAN,
        default : {JsUndefined, JsStr("dflt")}]
\* the parameter on the command line: not at all, --name, --no-name, --name=val
CliArgvs(p) == IF p.expectsValue THEN {"absent", "--name", "--name=val"}
               ELSE {"absent", "--name", "--no-name"}
CliEnvs(p) == IF p.expectsValue THEN {JsUndefined, JsStr("envv")}
              ELSE {JsUndefined, JsStr("true"), JsStr("false")}

\* minimist(argv, {boolean, string, alias}): the own property `key` of the
\* result, has = FALSE when there is none.  A declared boolean is always set
\* (false when not given), --no-name sets name to false and never sets
\* no-name; a declared string is set only when given (bare --name gives "")
minimist(p, argv, key) ==
  IF ~p.expectsValue THEN
    IF key = "name" THEN [has |-> TRUE, value |-> JsBool(argv = "--name")]
    ELSE [has |-> p.generateNegative, value |-> JsBool(FALSE)]
  ELSE
    IF key = "name" /\ argv # "absent"
      THEN [has |-> TRUE, value |-> JsStr(IF argv = "--name=val" THEN "val" ELSE "")]
      ELSE [has |-> FALSE, value |-> JsUndefined]

\* step 3 of parseCLIOnce for the parameter p
resolveParam(p, argv, env) ==
  LET own == minimist(p, argv, "name")
      neg == minimist(p, argv, "no-name")
      negative == ~p.expectsValue /\ p.generateNegative
                  /\ neg.has /\ neg.value = JsBool(TRUE)
      hasCliValue == own.has \/ negative
      cli == IF negative THEN JsBool(FALSE)
             ELSE IF own.has THEN own.value ELSE JsUndefined
      missing == hasCliValue /\ p.expectsValue
                 /\ (cli = JsBool(TRUE) \/ cli = JsUndefined)
      withEnv == IF ~hasCliValue /\ env # JsUndefined THEN env ELSE cli
      value == IF withEnv = JsUndefined THEN p.default ELSE withEnv
  IN [value |-> value,
      isError |-> missing \/ (p.required /\ value = JsUndefined)]

CliInit ==
  /\ cliParam \in CliParams
  /\ cliArgv \in CliArgvs(cliParam)
  /\ cliEnv \in CliEnvs(cliParam)
  /\ cliStatus = [isDirty |-> TRUE, isError |-> FALSE]
  /\ cliValue = JsUndefined

CliParse ==
  /\ cliStatus.isDirty
  /\ LET r == resolveParam(cliParam, cliArgv, cliEnv)
     IN /\ cliValue' = r.value
        /\ cliStatus' = [isDirty |-> FALSE, isError |-> r.isError]
  /\ UNCHANGED <<cliParam, cliArgv, cliEnv>>
  /\ UNCHANGED cliRest

CliNext == CliParse

(***************************************************************************)
(* lib/pipeline-config.js: registration, loadCLI and loadConfigFile while  *)
(* a module starts up                                                      *)
(***************************************************************************)
MaxLoadCalls == 4
MaxLoadPos == 2
MaxLoadRecords == 1

\* a key that cliBase.params does not hold
NotSet == [t |-> "absent", v |-> ""]
\* an array value; only its emptiness is observed
JsArr(items) == [t |-> "array", v |-> IF Len(items) = 0 THEN "empty" ELSE "filled"]

\* specs handed to registerParam: a required and an optional value parameter
LdNames == {"a", "b"}
LdParamSpecs ==
  { [longname |-> "a", expectsValue |-> TRUE, generateNegative |-> FALSE,
     required |-> TRUE, default |-> JsUndefined],
    [longname |-> "b", expectsValue |-> TRUE, generateNegative |-> FALSE,
     required |-> FALSE, default |-> JsUndefined] }

Slot(name, required, varargs) ==
  [name |-> name, required |-> required, varargs |-> varargs]
\* schemas handed to registerPositionals; the last one puts varargs first
LdSchemas ==
  { <<>>,
    <<Slot("config_file", TRUE, FALSE)>>,
    <<Slot("config_file", TRUE, FALSE), Slot("rest", FALSE, TRUE)>>,
    <<Slot("rest", FALSE, TRUE), Slot("config_file", TRUE, FALSE)>> }
NoSchema == [registered |-> FALSE, slots |-> <<>>]

\* the command line: parameters given as --name=val, --help, positionals
LdArgvs ==
  [given : SUBSET LdNames, help : BOOLEAN,
   positionals : UNION {[1..n -> {"cfg"}] : n \in 0..MaxLoadPos}]
\* reading and parsing the config file: fine with the registered field, fine
\* without it, fs.readFileSync throws, JSON.parse throws
LdFiles == {"good", "nofield", "unreadable", "badjson"}

\* applyPositionalsSchema(positionalsArr): the named values slot by slot.
\* idx runs with i because only the last slot can be varargs; positionals past
\* the last slot are not looked at
applyPositionalsSchema(slots, arr) ==
  LET value(i) == IF slots[i].varargs THEN JsArr(SubSeq(arr, i, Len(arr)))
                  ELSE IF i <= Len(arr) THEN JsStr(arr[i]) ELSE JsUndefined
      missing(i) == /\ slots[i].required
                    /\ IF slots[i].varargs THEN Len(SubSeq(arr, i, Len(arr))) = 0
                       ELSE value(i) = JsUndefined
  IN [named |-> [i \in 1..Len(slots) |-> value(i)],
      isError |-> \E i \in 1..Len(slots) : missing(i)]

\* parseCLIOnce(): what it leaves in cliStatus and cliBase, and how often argv
\* has been parsed afterwards
parseCLIOnce ==
  IF ~ldStatus.isDirty
    THEN [status |-> ldStatus, base |-> cliBase, parses |-> ldParses]
    ELSE
      LET res(i) == resolveParam(paramRegistry[i],
                                 IF paramRegistry[i].longname \in ldArgv.given
                                   THEN "--name=val" ELSE "absent",
                                 JsUndefined)
          idxOf(n) == CHOOSE i \in DOMAIN paramRegistry : paramRegistry[i].longname = n
          isReg(n) == \E i \in DOMAIN paramRegistry : paramRegistry[i].longname = n
          pos == applyPositionalsSchema(positionalsSchema.slots, ldArgv.positionals)
          err == pos.isError \/ \E i \in DOMAIN paramRegistry : res(i).isError
      IN [status |-> [isDirty |-> FALSE,
                      isError |-> ldStatus.isError \/ err,
                      showHelp |-> ldStatus.showHelp \/ err \/ ldArgv.help],
          base |-> [params |-> [n \in LdNames |->
                                  IF isReg(n) THEN res(idxOf(n)).value
                                  ELSE cliBase.params[n]],
                    positionals |-> ldArgv.positionals,
                    namedPositionals |-> pos.named],
          parses |-> ldParses + 1]

LdInit ==
  /\ paramRegistry = <<>>
  /\ positionalsSchema = NoSchema
  /\ configRegistry = <<>>
  /\ cliBase = [params |-> [n \in LdNames |-> NotSet], positionals |-> <<>>,
                namedPositionals |-> <<>>]
  /\ cliRuntime = FALSE
  /\ ldStatus = [isDirty |-> TRUE, isError |-> FALSE, showHelp |-> FALSE]
  /\ ldArgv \in LdArgvs
  /\ ldFile \in LdFiles
  /\ ldConfig = "none"
  /\ ldParses = 0
  /\ ldCalls = 0
  /\ ldChecked = FALSE
  /\ ldExit = "none"
  /\ ldPhase = "startup"
  /\ ldRecords = 0

\* the module is still executing its top-level statements
LdLive == ldPhase = "startup" /\ ldExit = "none" /\ ldCalls < MaxLoadCalls

registerParam(spec) ==
  /\ LdLive
  /\ ldCalls' = ldCalls + 1
  /\ IF \E i \in DOMAIN paramRegistry : paramRegistry[i].longname = spec.longname
       THEN /\ ldExit' = "threw"
            /\ UNCHANGED <<paramRegistry, ldStatus, ldChecked>>
       ELSE /\ paramRegistry' = Append(paramRegistry, spec)
            /\ ldStatus' = [ldStatus EXCEPT !.isDirty = TRUE]
            /\ ldChecked' = FALSE
            /\ UNCHANGED ldExit
  /\ UNCHANGED <<positionalsSchema, configRegistry, cliBase, cliRuntime, ldArgv,
                 ldFile, ldConfig, ldParses, ldPhase, ldRecords>>
  /\ UNCHANGED ldRest

registerPositionals(schema) ==
  /\ LdLive
  /\ ldCalls' = ldCalls + 1
  /\ IF \/ positionalsSchema.registered
        \/ \E i \in 1..Len(schema) : schema[i].varargs /\ i # Len(schema)
       THEN /\ ldExit' = "threw"
            /\ UNCHANGED <<positionalsSchema, ldStatus, ldChecked>>
       ELSE /\ positionalsSchema' = [registered |-> TRUE, slots |-> schema]
            /\ ldStatus' = [ldStatus EXCEPT !.isDirty = TRUE]
            /\ ldChecked' = FALSE
            /\ UNCHANGED ldExit
  /\ UNCHANGED <<paramRegistry, configRegistry, cliBase, cliRuntime, ldArgv,
                 ldFile, ldConfig, ldParses, ldPhase, ldRecords>>
  /\ UNCHANGED ldRest

\* registerConfigField({ path: "f", required })
registerConfigField(required) ==
  /\ LdLive
  /\ ldCalls' = ldCalls + 1
  /\ IF Len(configRegistry) > 0
       THEN ldExit' = "threw" /\ UNCHANGED configRegistry
       ELSE /\ configRegistry' = <<[path |-> "f", required |-> required]>>
            /\ UNCHANGED ldExit
  /\ UNCHANGED <<paramRegistry, positionalsSchema, cliBase, cliRuntime, ldStatus,
                 ldArgv, ldFile, ldConfig, ldParses, ldChecked, ldPhase, ldRecords>>
  /\ UNCHANGED ldRest

loadCLI ==
  /\ LdLive
  /\ ldCalls' = ldCalls + 1
  /\ LET r == parseCLIOnce
     IN /\ ldStatus' = r.status
        /\ cliBase' = r.base
        /\ ldParses' = r.parses
        /\ cliRuntime' = TRUE
        /\ IF r.status.showHelp
             THEN /\ ldExit' = IF r.status.isError THEN "-1" ELSE "0"
                  /\ UNCHANGED ldChecked
             ELSE /\ ldChecked' = TRUE
                  /\ UNCHANGED ldExit
  /\ UNCHANGED <<paramRegistry, positionalsSchema, configRegistry, ldArgv, ldFile,
                 ldConfig, ldPhase, ldRecords>>
  /\ UNCHANGED ldRest

\* loadConfigFile("positionals.config_file", ...)
loadConfigFile ==
  /\ LdLive
  /\ ldCalls' = ldCalls + 1
  /\ LET r == parseCLIOnce
         slots == positionalsSchema.slots
         v == IF \E i \in 1..Len(slots) : slots[i].name = "config_file"
                THEN r.base.namedPositionals[
                       CHOOSE i \in 1..Len(slots) : slots[i].name = "config_file"]
                ELSE JsUndefined
         readError == ldFile \in {"unreadable", "badjson"}
         missingField == /\ ldFile # "good"
                         /\ \E i \in DOMAIN configRegistry : configRegistry[i].required
         failed == readError \/ missingField
         flagged == [r.status EXCEPT !.showHelp = TRUE, !.isError = TRUE]
     IN /\ cliBase' = r.base
        /\ ldParses' = r.parses
        /\ cliRuntime' = TRUE
        /\ IF v.t # "string"
             THEN \* v.trim() on a value that is not a string
                  /\ ldStatus' = flagged
                  /\ ldExit' = "threw"
                  /\ UNCHANGED ldConfig
             ELSE /\ ldStatus' = IF failed THEN flagged ELSE r.status
                  /\ ldConfig' = IF failed THEN "failed" ELSE "ok"
                  /\ UNCHANGED ldExit
  /\ UNCHANGED <<paramRegistry, positionalsSchema, configRegistry, ldArgv, ldFile,
                 ldChecked, ldPhase, ldRecords>>
  /\ UNCHANGED ldRest

\* the module's top level ends with safeRead(callback)
LdStart ==
  /\ ldPhase = "startup" /\ ldExit = "none" /\ ldChecked
  /\ ldPhase' = "running"
  /\ UNCHANGED <<paramRegistry, positionalsSchema, configRegistry, cliBase, cliRuntime,
                 ldStatus, ldArgv, ldFile, ldConfig, ldParses, ldCalls, ldChecked,
                 ldExit, ldRecords>>
  /\ UNCHANGED ldRest

\* a record arrives and is handed to the callback
LdRecord ==
  /\ ldPhase = "running" /\ ldExit = "none" /\ ldRecords < MaxLoadRecords
  /\ ldRecords' = ldRecords + 1
  /\ UNCHANGED <<paramRegistry, positionalsSchema, configRegistry, cliBase, cliRuntime,
                 ldStatus, ldArgv, ldFile, ldConfig, ldParses, ldCalls, ldChecked,
                 ldExit, ldPhase>>
  /\ UNCHANGED ldRest

LdNext ==
  \/ \E spec \in LdParamSpecs : registerParam(spec)
  \/ \E schema \in LdSchemas : registerPositionals(schema)
  \/ \E required \in BOOLEAN : registerConfigField(required)
  \/ loadCLI
  \/ loadConfigFile
  \/ LdStart
  \/ LdRecord



(***************************************************************************)
(* Specifications: one per module; the other modules' state stays idle     *)
(***************************************************************************)
MergeIdle == MergeInit

GateIdle ==
  /\ normalizedBlocks = <<>>
  /\ activated = FALSE
  /\ warnedTimeout = FALSE
  /\ gateOpenedReported = FALSE
  /\ gateNow = 0
  /\ gateIn = <<>>
  /\ gateOut = <<>>

DelayIdle ==
  /\ delayMs = 0
  /\ queue = <<>>
  /\ inputClosed = FALSE
  /\ watermarkTs = NEGATIVE_INFINITY
  /\ dlyExited = FALSE
  /\ dlyNow = 1
  /\ dlyIn = <<>>
  /\ dlyOut = <<>>
  /\ dlyOutAt = <<>>

MinrateIdle ==
  /\ intervalMs = Undefined
  /\ minExited = TRUE
  /\ lastMessage = NoMsg
  /\ lastLogicalTs = TsNone
  /\ lastEmitWall = 0
  /\ minNow = 0
  /\ minFired = FALSE
  /\ minIn = <<>>
  /\ minOut = <<>>
  /\ minLastOutWall = -1

DedupIdle ==
  /\ dedupCfg = DedupCfg({}, FALSE, {}, 0)
  /\ lastData = DData(DAbsent, DAbsent, DAbsent)
  /\ haveLast = FALSE
  /\ dedIn = <<>>
  /\ dedOut = <<>>

SplitIdle ==
  /\ channels = [i \in SideIdx |-> [fd |-> TRUE, retryTimer |-> -1]]
  /\ splPolicy = [exitOnClose |-> FALSE, retry |-> TRUE]
  /\ splTarget = [i \in SideIdx |-> "ok"]
  /\ splLastOpen = [i \in SideIdx |-> [res |-> "ok", at |-> 0]]
  /\ splExited = FALSE
  /\ splNow = 0
  /\ splIn = <<>>
  /\ splOut = <<>>
  /\ splSide = [i \in SideIdx |-> <<>>]

SmIdle ==
  /\ smCfg = [passes |-> 1, initialState |-> <<"idle", "idle">>,
              states |-> [idle |-> << >>, active |-> << >>, alarm |-> << >>]]
  /\ instanceRuntime = [i \in SmInstances |->
       [state |-> "idle", enteredAtMs |-> 0, crash |-> FALSE]]
  /\ smExited = FALSE
  /\ smNow = 7
  /\ smIn = <<>>
  /\ smOut = <<>>

RedIdle ==
  /\ reduceCfg = [passes |-> 1, missing |-> "ignore", forward_policy |-> "all",
                  outputs |-> << >>]
  /\ retained = [key \in RedKeys |-> RUndef]
  /\ redHung = FALSE
  /\ redIn = <<>>
  /\ redOut = <<>>

ChanIdle ==
  /\ chanGlobal = [exit |-> NoOverride, retry |-> NoOverride]
  /\ streamWritePolicies = [t \in {"undefined", "fifo"} |-> NoPolicy]
  /\ chanState = "running"
  /\ chanCount = 0
  /\ chanCall = NoCall

RdIdle ==
  /\ rdProtocol = "ndjson"
  /\ rdExitOnClose = TRUE
  /\ rdBuffer = <<>>
  /\ rdRecv = <<>>
  /\ rdDelivered = <<>>
  /\ rdDecoding = TRUE
  /\ rdState = "open"

CoreIdle ==
  /\ coreIn = CoreValue("obj", "obj", "obj", NoPipeline)
  /\ coreObj = coreIn
  /\ coreStep = "input"

CliIdle ==
  /\ cliParam = [expectsValue |-> FALSE, generateNegative |-> TRUE, required |-> FALSE,
                 default |-> JsUndefined]
  /\ cliArgv = "absent"
  /\ cliEnv = JsUndefined
  /\ cliStatus = [isDirty |-> TRUE, isError |-> FALSE]
  /\ cliValue = JsUndefined

LdIdle ==
  /\ paramRegistry = <<>>
  /\ positionalsSchema = NoSchema
  /\ configRegistry = <<>>
  /\ cliBase = [params |-> [n \in LdNames |-> NotSet], positionals |-> <<>>,
                namedPositionals |-> <<>>]
  /\ cliRuntime = FALSE
  /\ ldStatus = [isDirty |-> TRUE, isError |-> FALSE, showHelp |-> FALSE]
  /\ ldArgv = [given |-> {}, help |-> FALSE, positionals |-> <<>>]
  /\ ldFile = "good"
  /\ ldConfig = "none"
  /\ ldParses = 0
  /\ ldCalls = 0
  /\ ldChecked = FALSE
  /\ ldExit = "none"
  /\ ldPhase = "startup"
  /\ ldRecords = 0

LibIdle == ChanIdle /\ RdIdle /\ CoreIdle /\ CliIdle /\ LdIdle

\* every module idle
AppIdle ==
  /\ doTag = TRUE
  /\ MergeIdle /\ GateIdle /\ DelayIdle /\ MinrateIdle
  /\ DedupIdle /\ SplitIdle /\ SmIdle /\ RedIdle

InitMerge == MergeInit /\ doTag = TRUE /\ GateIdle /\ DelayIdle /\ MinrateIdle /\ DedupIdle /\ SplitIdle /\ SmIdle /\ RedIdle /\ LibIdle
SpecMerge == InitMerge /\ [][MergeNext]_vars

InitGate == GateInit /\ doTag \in BOOLEAN /\ MergeIdle /\ DelayIdle /\ MinrateIdle /\ DedupIdle /\ SplitIdle /\ SmIdle /\ RedIdle /\ LibIdle
SpecGate == InitGate /\ [][GateNext]_vars

InitDelay == DelayInit /\ doTag = TRUE /\ MergeIdle /\ GateIdle /\ MinrateIdle /\ DedupIdle /\ SplitIdle /\ SmIdle /\ RedIdle /\ LibIdle
SpecDelay == InitDelay /\ [][DelayNext]_vars

InitMinrate == MinrateInit /\ doTag = TRUE /\ MergeIdle /\ GateIdle /\ DelayIdle /\ DedupIdle /\ SplitIdle /\ SmIdle /\ RedIdle /\ LibIdle
SpecMinrate == InitMinrate /\ [][MinrateNext]_vars

InitDedup ==
  /\ DedupInit /\ doTag = TRUE
  /\ MergeIdle /\ GateIdle /\ DelayIdle /\ MinrateIdle /\ SplitIdle /\ SmIdle /\ RedIdle /\ LibIdle
SpecDedup == InitDedup /\ [][DedupNext]_vars

InitSplit ==
  /\ SplitInit /\ doTag = TRUE
  /\ MergeIdle /\ GateIdle /\ DelayIdle /\ MinrateIdle /\ DedupIdle /\ SmIdle /\ RedIdle /\ LibIdle
SpecSplit == InitSplit /\ [][SplitNext]_vars

InitSm ==
  /\ SmInit /\ doTag = TRUE
  /\ MergeIdle /\ GateIdle /\ DelayIdle /\ MinrateIdle /\ DedupIdle /\ SplitIdle /\ RedIdle /\ LibIdle
SpecSm == InitSm /\ [][SmNext]_vars

InitReduce ==
  /\ RedInit /\ doTag = TRUE
  /\ MergeIdle /\ GateIdle /\ DelayIdle /\ MinrateIdle /\ DedupIdle /\ SplitIdle /\ SmIdle
  /\ LibIdle
SpecReduce == InitReduce /\ [][RedNext]_vars

InitChannel == ChanInit /\ AppIdle /\ RdIdle /\ CoreIdle /\ CliIdle /\ LdIdle
SpecChannel == InitChannel /\ [][ChanNext]_vars

InitRead == RdInit /\ AppIdle /\ ChanIdle /\ CoreIdle /\ CliIdle /\ LdIdle
SpecRead == InitRead /\ [][RdNext]_vars

InitCore ==
  /\ CoreInit /\ doTag \in BOOLEAN
  /\ MergeIdle /\ GateIdle /\ DelayIdle /\ MinrateIdle
  /\ DedupIdle /\ SplitIdle /\ SmIdle /\ RedIdle
  /\ ChanIdle /\ RdIdle /\ CliIdle /\ LdIdle
SpecCore == InitCore /\ [][CoreNext]_vars

InitCli == CliInit /\ AppIdle /\ ChanIdle /\ RdIdle /\ CoreIdle /\ LdIdle
SpecCli == InitCli /\ [][CliNext]_vars

InitLoad == LdInit /\ AppIdle /\ ChanIdle /\ RdIdle /\ CoreIdle /\ CliIdle
SpecLoad == InitLoad /\ [][LdNext]_vars

(***************************************************************************)
(* Claims                                                                  *)
(***************************************************************************)

\* C1: merge emits exactly one output record per primary record, in the
\* order the primary records arrived, whatever the primary timestamp is and
\* whatever has arrived on the side channels.
MergeOnePerPrimary ==
  /\ Len(mrgOut) = Len(mrgIn)
  /\ \A i \in 1..Len(mrgOut) : mrgOut[i].id = mrgIn[i].id

\* Section 4.4 of the specification, stated on a received record: the
\* record, as seen at the instant it was read, meets every condition of
\* every configured block.
MeetsBlock(block, in) ==
  LET d == in.obj.data
  IN /\ \A k \in block.mustHave : d[k].k \notin {"absent", "null"}
     /\ \A p \in block.minValues : d[p[1]].k = "num" /\ d[p[1]].n >= p[2]
     /\ \A p \in block.boolEqual :
          IF p[2] THEN d[p[1]] = JBool(TRUE)
          ELSE d[p[1]].k = "absent" \/ d[p[1]] = JBool(FALSE)
     /\ \A p \in block.strEqual : d[p[1]] = JStr(p[2])
     /\ block.maxAgeMs # -1 =>
          (in.obj.ts.k = "num" /\ in.now - in.obj.ts.n <= block.maxAgeMs)

OpensGate(in) ==
  \A i \in 1..Len(normalizedBlocks) : MeetsBlock(normalizedBlocks[i], in)

GateEmittedIdx == {gateOut[j].idx : j \in 1..Len(gateOut)}

\* C2: the gate emits no record before the first input record that on its
\* own satisfies every block; earlier records are dropped and never emitted
\* later (the output only ever holds records in input order, each written
\* while it was the last one read).
GateClosedUntilOpened ==
  /\ \A j \in 1..Len(gateOut) :
       \E i \in 1..gateOut[j].idx : OpensGate(gateIn[i])
  /\ \A j \in 1..Len(gateOut) - 1 : gateOut[j].idx < gateOut[j + 1].idx
  /\ \A j \in 1..Len(gateOut) : gateOut[j].idx <= Len(gateIn)
  /\ (\A i \in 1..Len(gateIn) : ~OpensGate(gateIn[i])) => ~activated

\* C2 witness: two records that together meet every block of a two-block
\* configuration, neither alone, were dropped; a third opened the gate and
\* is the only record written.
GateClosedUntilOpenedWitness ==
  /\ Len(normalizedBlocks) = 2
  /\ Len(gateIn) = 3
  /\ ~OpensGate(gateIn[1]) /\ ~OpensGate(gateIn[2]) /\ OpensGate(gateIn[3])
  /\ \A b \in 1..2 : \E i \in 1..2 : MeetsBlock(normalizedBlocks[b], gateIn[i])
  /\ gateNow > 0
  /\ GateEmittedIdx = {3}

\* C3: once a record has opened the gate it stays open: every later input
\* record is emitted, with the gate tag appended (appendTag, a no-op when
\* tagging is disabled), whether or not it satisfies any block.
GateLatched ==
  \A i \in 1..Len(gateIn) :
    (\E h \in 1..(i - 1) : OpensGate(gateIn[h])) =>
      /\ activated
      /\ \E j \in 1..Len(gateOut) :
           /\ gateOut[j].idx = i
           /\ gateOut[j].data = gateIn[i].obj.data
           /\ gateOut[j].pipeline =
                IF doTag THEN gateIn[i].obj.pipeline \o <<"gat">>
                ELSE gateIn[i].obj.pipeline

\* C3 witness: after the opening record, a record meeting no block at all
\* was emitted with the tag.
GateLatchedWitness ==
  /\ doTag
  /\ Len(normalizedBlocks) = 2
  /\ Len(gateIn) >= 2
  /\ OpensGate(gateIn[1])
  /\ \A b \in 1..2 : ~MeetsBlock(normalizedBlocks[b], gateIn[2])
  /\ \E j \in 1..Len(gateOut) :
       gateOut[j].idx = 2 /\ gateOut[j].pipeline = <<"gat">>

\* tsIn and tsOut of a received record, as section 4.9 defines them
DelayTsIn(in) == IF in.ts.k = "num" THEN in.ts.n ELSE in.now
DelayTsOut(in) == DelayTsIn(in) + delayMs
DelayIdsOut == {dlyOut[j].id : j \in 1..Len(dlyOut)}

\* C4 (as claimed): the records emitted by delay appear in non-decreasing
\* order of tsOut, for every input sequence.
DelayOutputSorted ==
  \A i, j \in 1..Len(dlyOut) : i < j => dlyOut[i].ts <= dlyOut[j].ts

\* C4 (amended): a record is emitted after a record with a larger tsOut only
\* when it was read after that record had already been written; records
\* that were buffered together leave in non-decreasing tsOut order.
DelayOrderedUnlessLate ==
  \A i, j \in 1..Len(dlyOut) :
    (i < j /\ dlyOut[i].ts > dlyOut[j].ts) => dlyOut[j].id > dlyOutAt[i]

\* C4 witness: two records were buffered together and left in tsOut order,
\* which is the reverse of their arrival order.
DelayOrderedWitness ==
  \E i, j \in 1..Len(dlyOut) :
    /\ i < j
    /\ dlyOut[i].id > dlyOut[j].id
    /\ dlyOut[i].ts < dlyOut[j].ts
    /\ dlyOutAt[i] = dlyOutAt[j]
    /\ ~inputClosed

\* C5: once stdin has ended the queue is empty, the process has exited and
\* every record read was written exactly once, whatever the watermark.
DelayEofFlush ==
  inputClosed =>
    /\ dlyExited
    /\ queue = <<>>
    /\ Len(dlyOut) = Len(dlyIn)
    /\ \A i \in 1..Len(dlyIn) :
         Cardinality({j \in 1..Len(dlyOut) : dlyOut[j].id = i}) = 1

\* C5 witness: the flush at EOF wrote two records the watermark had not
\* reached.
DelayEofFlushWitness ==
  /\ dlyExited
  /\ Cardinality({j \in 1..Len(dlyOut) : dlyOut[j].ts > watermarkTs}) >= 2

\* the watermark W of section 4.9: the largest tsIn read so far
DelayW(w) == /\ \A i \in 1..Len(dlyIn) : DelayTsIn(dlyIn[i]) <= w
             /\ \E i \in 1..Len(dlyIn) : DelayTsIn(dlyIn[i]) = w

\* C6: before EOF, after each input record the queue holds exactly the
\* records read whose tsOut is greater than the watermark; all the others
\* have been written, stamped with their tsOut.
DelayBufferAboveWatermark ==
  ~inputClosed =>
    \A i \in 1..Len(dlyIn) :
      LET buffered == \E q \in 1..Len(queue) : queue[q].id = i
          written == \E j \in 1..Len(dlyOut) :
                       dlyOut[j].id = i /\ dlyOut[j].ts = DelayTsOut(dlyIn[i])
      IN /\ DelayW(watermarkTs)
         /\ buffered <=> DelayTsOut(dlyIn[i]) > watermarkTs
         /\ written <=> DelayTsOut(dlyIn[i]) <= watermarkTs
         /\ ~(buffered /\ i \in DelayIdsOut)

\* C6 witness: one record is still buffered above the watermark and one was
\* written at the moment the watermark reached its tsOut exactly.
DelayBufferWitness ==
  /\ ~inputClosed
  /\ delayMs > 0
  /\ Len(queue) > 0
  /\ \E j \in 1..Len(dlyOut) : dlyOut[j].ts = watermarkTs

\* C7: minrate writes every real input record exactly once, in the callback
\* that read it and in input order, however many clones lie in between.
MinrateForwardsAll ==
  LET reals == SelectSeq(minOut, LAMBDA r : r.real)
  IN /\ Len(reals) = Len(minIn)
     /\ \A i \in 1..Len(minIn) :
          /\ reals[i].id = minIn[i].id
          /\ minIn[i].ts.k = "num" => reals[i].ts = minIn[i].ts

\* C7 witness: two real records were written with a clone between them.
MinrateForwardsAllWitness ==
  /\ Len(minIn) = 2
  /\ \E i, j, l \in 1..Len(minOut) :
       /\ i < j /\ j < l
       /\ minOut[i].real /\ ~minOut[j].real /\ minOut[l].real
       /\ minOut[i].id = 1 /\ minOut[l].id = 2

\* C8: each clone carries a numeric meta.timestamp equal to the timestamp of
\* the record written just before it plus the interval I.
MinrateCloneSpacing ==
  \A j \in 1..Len(minOut) :
    ~minOut[j].real =>
      /\ j > 1
      /\ minOut[j].ts.k = "num"
      /\ minOut[j - 1].ts.k = "num"
      /\ minOut[j].ts.n = minOut[j - 1].ts.n + ToNumber(intervalMs)

\* C9: once a first real input was received, every window of length I of
\* wall-clock time holds at least one written record: no window [T, T+I]
\* that has fully elapsed lies after the last write.
MinrateOutputEveryInterval ==
  minLastOutWall >= 0 =>
    ~\E T \in 0..minNow :
       T > minLastOutWall /\ T + ToNumber(intervalMs) < minNow

\* C10: with non-decreasing real input timestamps (and a numeric interval,
\* as --rate gives), the timestamps of the written records, real and clones
\* together, never step backward.
MinrateTimestampsMonotone ==
  ( /\ intervalMs.k = "num"
    /\ \A i \in 1..Len(minIn) : minIn[i].ts.k = "num"
    /\ \A i \in 1..Len(minIn) - 1 : minIn[i].ts.n <= minIn[i + 1].ts.n )
  => \A j \in 1..Len(minOut) - 1 : ToNumber(minOut[j].ts) <= ToNumber(minOut[j + 1].ts)

DedupEmittedIdx == {dedOut[j].idx : j \in 1..Len(dedOut)}

\* C11: for an input sequence in which every record's data is identical,
\* dedup emits exactly one record, the first, and drops all the others.
DedupIdenticalOnce ==
  (Len(dedIn) >= 1 /\ \A i \in 1..Len(dedIn) : dedIn[i] = dedIn[1])
    => (Len(dedOut) = 1 /\ dedOut[1].idx = 1)

\* the top-level keys section 4.6 compares by tolerance for a record
DedupCompared(data) ==
  {k \in {"a", "t"} :
     /\ k \notin dedupCfg.ignore_fields
     /\ dedupCfg.check_given => k \in dedupCfg.check_fields
     /\ data[k].k = "num"}

\* the last record emitted before input record i (0: none)
DedupBaseOf(i) ==
  IF \E j \in DedupEmittedIdx : j < i
    THEN CHOOSE j \in DedupEmittedIdx :
           j < i /\ \A h \in DedupEmittedIdx : h < i => h <= j
    ELSE 0

\* C12: the remembered baseline is the data of the last record emitted, not
\* of the last record received: a record whose compared number differs from
\* the last emitted record by more than the tolerance is emitted, and a
\* dropped record is within the tolerance of the last emitted record.
DedupBaselineIsLastEmitted ==
  /\ haveLast <=> Len(dedOut) > 0
  /\ haveLast => lastData = dedOut[Len(dedOut)].data
  /\ \A i \in 1..Len(dedIn) :
       LET e == DedupBaseOf(i)
       IN IF e = 0 THEN i \in DedupEmittedIdx
          ELSE /\ (\E k \in DedupCompared(dedIn[i]) :
                     /\ dedIn[e][k].k = "num"
                     /\ Abs(dedIn[i][k].n - dedIn[e][k].n) > dedupCfg.numeric_tolerance)
                  => i \in DedupEmittedIdx
               /\ i \notin DedupEmittedIdx =>
                    \A k \in DedupCompared(dedIn[i]) :
                      dedIn[e][k].k = "num" =>
                        Abs(dedIn[i][k].n - dedIn[e][k].n) <= dedupCfg.numeric_tolerance

\* C12 witness: with tolerance 1 the values 0, 1, 2 arrived, each within the
\* tolerance of its predecessor; the second was dropped and the third, 2 away
\* from the last emitted record, was emitted.
DedupBaselineWitness ==
  /\ dedupCfg.numeric_tolerance = 1
  /\ Len(dedIn) = 3
  /\ dedIn[1].a = DNum(0) /\ dedIn[2].a = DNum(1) /\ dedIn[3].a = DNum(2)
  /\ dedIn[2].t = dedIn[3].t
  /\ DedupEmittedIdx = {1, 3}

\* C13 (as claimed): whatever happens on the side channels, split never
\* terminates and writes every input record to stdout exactly once, in
\* input order.
SplitPrimaryUnaffected ==
  /\ ~splExited
  /\ Len(splOut) = Len(splIn)
  /\ \A j \in 1..Len(splOut) : splOut[j].idx = j

\* C13 (amended): once split has started, i.e. every side path existed or
\* could be created, it never terminates and writes every input record to
\* stdout exactly once, in input order, whatever the side channels do (not
\* open, failed open, failing write).
SplitPrimaryUnaffectedOnceStarted ==
  (\A i \in SideIdx : splTarget[i] # "nopath") => SplitPrimaryUnaffected

\* C13 witness: two records reached stdout although one side channel never
\* opened and the write to the other failed with an error other than a
\* broken pipe.
SplitPrimaryWitness ==
  /\ Len(splOut) = 2
  /\ ~splExited
  /\ \E i, j \in SideIdx :
       /\ ~channels[i].fd /\ splLastOpen[i].res = "EACCES"
       /\ channels[j].fd /\ splIn[2].code[j] = "EIO"

\* C14 (as claimed): whenever a side channel is not open because opening
\* it failed, another open attempt is pending.
SplitRetryAfterEveryFailure ==
  ~splExited =>
    \A i \in SideIdx : ~channels[i].fd => channels[i].retryTimer # -1

\* C14 (amended): after an open that failed with ENXIO the next attempt is
\* pending for exactly 500 ms after the failure, and this repeats while the
\* open fails with ENXIO; after any other open error no attempt is pending
\* and the channel stays closed; the channel is open iff its last open
\* succeeded, and it then holds exactly the records read while it was open
\* whose write succeeded.
SplitRetryOnEnxio ==
  ~splExited =>
    \A i \in SideIdx :
      /\ channels[i].fd <=> splLastOpen[i].res = "ok"
      /\ splLastOpen[i].res = "ENXIO" =>
           /\ channels[i].retryTimer = splLastOpen[i].at + 500
           /\ splNow <= channels[i].retryTimer
      /\ splLastOpen[i].res # "ENXIO" => channels[i].retryTimer = -1
      /\ splSide[i] = SelectSeq([j \in 1..Len(splIn) |-> j],
                        LAMBDA j : splIn[j].open[i] /\ splIn[j].code[i] = "ok")

\* C14 witness: a channel whose open failed with ENXIO at start was opened
\* by a later attempt, missed the first record and received the second.
SplitRetryWitness ==
  \E i \in SideIdx :
    /\ splLastOpen[i].res = "ok" /\ splLastOpen[i].at = 1000
    /\ Len(splIn) = 2
    /\ ~splIn[1].open[i]
    /\ splSide[i] = <<2>>

\* what section 4.8 prescribes for the hold-last channel 2 in the output
\* written when n side records had been read: the last of them on channel 2
\* with a numeric timestamp, as it is (0: there is none)
MergeLastTimed(n) ==
  LET S == {h \in 1..n : mrgSideIn[h].idx = 2 /\ mrgSideIn[h].ts.k = "num"}
  IN IF S = {} THEN 0 ELSE CHOOSE h \in S : \A g \in S : g <= h

MergeHoldsLast(j) ==
  LET h == MergeLastTimed(mrgOutAt[j])
  IN IF h = 0
       THEN mrgOut[j].side[2].k = "none" /\ mrgOut[j].data.y_2.k = "none"
       ELSE /\ mrgOut[j].side[2].k = "rec"
            /\ mrgOut[j].side[2].id = mrgSideIn[h].id
            /\ mrgOut[j].data.y_2 = [k |-> "val", num |-> mrgSideIn[h].y, den |-> 1]

\* C15 (as claimed): every output carries, for the hold-last channel, the
\* data of the most recently received side record with a numeric timestamp
\* (nothing if there is none), whatever the primary timestamp is.
MergeUnboundedHoldLast ==
  \A j \in 1..Len(mrgOut) : MergeHoldsLast(j)

\* C15 (amended): the same for every output written for a primary record
\* with a numeric timestamp, whatever its value; a primary record whose
\* timestamp is not a number is passed through without side data.
MergeUnboundedHoldLastNumeric ==
  \A j \in 1..Len(mrgOut) :
    IF mrgOut[j].ts.k = "num" THEN MergeHoldsLast(j)
    ELSE mrgOut[j].side[2].k = "none" /\ mrgOut[j].data.y_2.k = "none"

\* C15 witness: an output at primary time 3 carries the hold-last record
\* stamped 5, outside the match tolerance, although an untimed record
\* arrived on the channel after it.
MergeUnboundedWitness ==
  \E j \in 1..Len(mrgOut) :
    /\ mrgOut[j].ts = Num(3)
    /\ mrgOutAt[j] = 2
    /\ mrgSideIn[1] = [idx |-> 2, id |-> 1, ts |-> Num(5), y |-> 3]
    /\ mrgSideIn[2].idx = 2 /\ mrgSideIn[2].ts = TsNone
    /\ mrgOut[j].side[2].id = 1
    /\ mrgOut[j].data.y_2 = [k |-> "val", num |-> 3, den |-> 1]

\* C16: every key of the primary record's data is in the merged output
\* with its original value; side fields never overwrite a primary field.
MergePrimaryKept ==
  \A j \in 1..Len(mrgOut) :
    LET main == mrgIn[mrgOut[j].id].data
    IN \A key \in DOMAIN main :
         main[key] # -1 =>
           mrgOut[j].data[key] = [k |-> "val", num |-> main[key], den |-> 1]

\* C17: for each state-machine instance and each record, if no transition of
\* the instance's current state has a `when` that evaluated true, the
\* instance's state and enteredAtMs are the same after the record as before
SmNoWhenNoChange ==
  \A k \in 1..Len(smIn) : \A i \in SmInstances :
    smIn[k].conds[i] = {} =>
      /\ smIn[k].after[i].state = smIn[k].before[i].state
      /\ smIn[k].after[i].enteredAtMs = smIn[k].before[i].enteredAtMs

\* a record found an instance in a state with transitions, entered at another
\* instant than the record's, and none of their conditions held
SmNoWhenWitness ==
  \E k \in 1..Len(smIn) : \E i \in SmInstances :
    /\ smIn[k].conds[i] = {}
    /\ smIn[k].before[i].state \in DOMAIN smCfg.states
    /\ smCfg.states[smIn[k].before[i].state] # << >>
    /\ smIn[k].before[i].enteredAtMs # 0
    /\ smIn[k].before[i].enteredAtMs # smIn[k].nowMs
    /\ Len(smOut) >= k

\* C18: in a pass the first transition (in declaration order) whose `when` is
\* true fires: the state becomes its goto target and enteredAtMs becomes the
\* record timestamp (or now), also when the target is the current state.
\* Stated for configurations with one pass, where the pass is the whole record.
SmFirstTrueFires ==
  \A k \in 1..Len(smIn) : \A i \in SmInstances :
    (smCfg.passes = 1 /\ smIn[k].conds[i] # {}) =>
      LET t == CHOOSE t \in smIn[k].conds[i] : \A u \in smIn[k].conds[i] : t <= u
          tr == smCfg.states[smIn[k].before[i].state][t]
      IN tr.target # "" =>
           /\ smIn[k].after[i].state = tr.target
           /\ smIn[k].after[i].enteredAtMs = smIn[k].nowMs

\* the rules of reduceCfg that need a field which is neither in the data of
\* record k, nor computed by a rule declared before them, nor retained from
\* an earlier record, nor the internal timestamp
RedAbsentInput(k) ==
  \E j \in 1..Len(reduceCfg.outputs) : \E f \in 1..Len(reduceCfg.outputs[j].inputs) :
    LET key == reduceCfg.outputs[j].inputs[f]
    IN /\ key # "__timestamp"
       /\ key \notin redIn[k].seeded
       /\ key \notin {reduceCfg.outputs[e].name : e \in 1..(j - 1)}
       /\ (key \in RedDataKeys => redIn[k].data[key] = RUndef)

\* C19: with missing "fail", a record for which a rule's required input is
\* absent produces no output record at all
RedFailDrops ==
  reduceCfg.missing = "fail" =>
    \A k \in 1..Len(redIn) :
      RedAbsentInput(k) => ~(\E o \in 1..Len(redOut) : redOut[o].idx = k)

\* under "fail" a record with an absent input was dropped and a complete one
\* was written
RedFailWitness ==
  /\ reduceCfg.missing = "fail"
  /\ \E k \in 1..Len(redIn) :
       RedAbsentInput(k) /\ ~(\E o \in 1..Len(redOut) : redOut[o].idx = k)
  /\ \E k \in 1..Len(redIn) :
       ~RedAbsentInput(k) /\ (\E o \in 1..Len(redOut) : redOut[o].idx = k)

\* C20: with forward_policy "known", the data of every emitted record has
\* exactly the declared rule names that are not marked temp as its keys
RedKnownExactKeys ==
  reduceCfg.forward_policy = "known" =>
    \A o \in 1..Len(redOut) :
      {key \in RedKeys : redOut[o].data[key] # RUndef}
        = {reduceCfg.outputs[j].name :
             j \in {j \in 1..Len(reduceCfg.outputs) : ~reduceCfg.outputs[j].temp}}

\* C21: with forward_policy "all", every key of the working map that does not
\* start with "__" and is not marked temp is in the emitted data with its
\* working-map value (of the modelled keys only __timestamp starts with "__")
RedAllForwardsWorkingMap ==
  reduceCfg.forward_policy = "all" =>
    \A o \in 1..Len(redOut) : \A key \in RedKeys \ {"__timestamp"} :
      LET working == redIn[redOut[o].idx].working
          temp == {reduceCfg.outputs[j].name :
                     j \in {j \in 1..Len(reduceCfg.outputs) : reduceCfg.outputs[j].temp}}
      IN (working[key] # RUndef /\ key \notin temp) =>
           redOut[o].data[key] = working[key]

\* C22 (reducer part): a rule whose expression does not compile or throws
\* yields null for every record that carries its inputs: under "fail" the
\* record is dropped, otherwise the rule's key is null in the working map
RedExprErrorYieldsNull ==
  \A k \in 1..Len(redIn) : \A j \in 1..Len(reduceCfg.outputs) :
    LET rule == reduceCfg.outputs[j]
    IN (/\ rule.op \in {"expr", "condition"}
        /\ rule.expr \in {"x >", "nope.z"}
        /\ redIn[k].data[rule.inputs[1]].k \in {"num", "bool", "str"}) =>
         IF reduceCfg.missing = "fail"
           THEN ~(\E o \in 1..Len(redOut) : redOut[o].idx = k)
           ELSE redIn[k].working[rule.name] = RNull

\* C23: every evaluation of a reducer expr/condition expression is cut off
\* after a short time budget: a record whose rule has a non-terminating
\* expression gets an evaluation error (null) for that rule, and the reducer
\* is not stuck in the evaluation
RedExprTimeBudget ==
  /\ ~redHung
  /\ \A k \in 1..Len(redIn) : \A j \in 1..Len(reduceCfg.outputs) :
       LET rule == reduceCfg.outputs[j]
       IN (/\ rule.expr = "spin()"
           /\ reduceCfg.missing # "fail"
           /\ redIn[k].data[rule.inputs[1]].k \in {"num", "bool", "str"}) =>
            redIn[k].working[rule.name] = RNull

\* the channel a call is about and the global --exit-on-close entry for it
ChanCallId ==
  IF chanCall.options.channelId # "" THEN chanCall.options.channelId
  ELSE IF chanCall.direction = "read"
    THEN (IF chanCall.target \in {"undefined", "fd0"} THEN "stdin" ELSE "")
  ELSE IF chanCall.target \in {"undefined", "fd1"} THEN "stdout"
  ELSE IF chanCall.target = "fd2" THEN "stderr"
  ELSE ""
ChanCallGlobal == IF ChanCallId = "" THEN "none" ELSE chanGlobal.exit[ChanCallId]
ChanCallDefault ==
  IF chanCall.direction = "read" THEN ChanCallId = "stdin"
  ELSE ChanCallId \in {"stdout", "stderr"}

\* C24 as stated: default < module exitOnClose option < linger < global
ChanExitOrderLingerOverOption ==
  chanCall.direction # "none" =>
    chanCall.policy.exitOnClose =
      (IF ChanCallGlobal # "none" THEN ChanCallGlobal = "true"
       ELSE IF chanCall.options.linger # "none" THEN chanCall.options.linger = "false"
       ELSE IF chanCall.options.exitOnClose # "none"
         THEN chanCall.options.exitOnClose = "true"
       ELSE ChanCallDefault)

\* C24: the effective exitOnClose of a read or write call is resolved in the
\* order default < legacy linger alias (exitOnClose = !linger) < module
\* exitOnClose option < global --exit-on-close entry of the channel: of the
\* ones given, the last in this order determines the result
ChanExitOrderOptionOverLinger ==
  chanCall.direction # "none" =>
    chanCall.policy.exitOnClose =
      (IF ChanCallGlobal # "none" THEN ChanCallGlobal = "true"
       ELSE IF chanCall.options.exitOnClose # "none"
         THEN chanCall.options.exitOnClose = "true"
       ELSE IF chanCall.options.linger # "none" THEN chanCall.options.linger = "false"
       ELSE ChanCallDefault)

\* a call gave an exitOnClose option and a linger that ask for opposite
\* things, with no global entry for the channel
ChanExitOrderWitness ==
  /\ chanCall.direction \in {"read", "write"}
  /\ ChanCallGlobal = "none"
  /\ chanCall.options.exitOnClose = "true"
  /\ chanCall.options.linger = "true"
  /\ chanCall.policy.exitOnClose

\* C25: a broken pipe on a write to a channel whose effective exitOnClose is
\* true terminates the process
ChanBrokenPipeTerminates ==
  (/\ chanCall.direction = "write"
   /\ chanCall.code = "EPIPE"
   /\ chanCall.policy.exitOnClose) => chanState = "terminated"

RECURSIVE RdWellFormed(_, _, _)
\* the numbers of the well-formed lines of the text chars from position i on,
\* cur being the line begun before i; the unterminated tail counts once the
\* stream has ended
RdWellFormed(chars, i, cur) ==
  LET value == IF cur # <<>> /\ \A c \in 1..Len(cur) : cur[c] = "1"
                 THEN << (10 ^ Len(cur) - 1) \div 9 >> ELSE << >>
  IN IF i > Len(chars) THEN (IF rdState # "open" THEN value ELSE << >>)
     ELSE IF chars[i] = "nl" THEN value \o RdWellFormed(chars, i + 1, << >>)
     ELSE RdWellFormed(chars, i + 1, Append(cur, chars[i]))

\* C26: in NDJSON mode the callback receives exactly the well-formed lines of
\* the stream, in order: a malformed line is skipped and the lines before and
\* after it are delivered
RdMalformedSkipped ==
  rdProtocol = "ndjson" => rdDelivered = RdWellFormed(rdRecv, 1, << >>)

\* a malformed line stood between two well-formed ones and both were delivered
RdMalformedWitness ==
  /\ rdProtocol = "ndjson"
  /\ rdRecv = <<"1", "nl", "x", "nl", "1", "1">>
  /\ rdState # "open"
  /\ rdDelivered = <<1, 11>>

\* C27: in MsgPack mode the well-formed objects that follow a corrupt one are
\* still delivered to the callback
RdDecodeErrorSkipped ==
  rdProtocol = "msgpack" =>
    Len(rdDelivered) = Cardinality({i \in 1..Len(rdRecv) : rdRecv[i] # "bad"})

\* C28: normalize returns a mapping whose meta and data are mappings, wraps
\* every input that is not a mapping, and is idempotent on what it returned
CoreAlwaysMapping ==
  coreStep # "input" =>
    /\ coreObj.k = "obj" /\ coreObj.meta = "obj" /\ coreObj.data = "obj"
    /\ coreIn.k # "obj" => coreObj.wrapped
    /\ normalizeObject(coreObj) = coreObj

CliPrecedence ==
  ~cliStatus.isDirty =>
    cliValue =
      (IF cliArgv # "absent"
         THEN (CASE cliArgv = "--name=val" -> JsStr("val")
                 [] cliArgv = "--no-name" -> JsBool(FALSE)
                 [] OTHER -> IF cliParam.expectsValue THEN JsStr("") ELSE JsBool(TRUE))
       ELSE IF cliEnv # JsUndefined THEN cliEnv
       ELSE cliParam.default)

\* C31: across registerParam / registerPositionals / loadCLI calls of one
\* process, argv and the environment are parsed exactly once
LdParsedOnce == ldParses <= 1

\* C32: with more positionals than schema slots and no variadic last slot,
\* startup fails: the module never gets to run
LdExcessPositionalsFatal ==
  ~ ( /\ ldPhase = "running"
      /\ positionalsSchema.registered
      /\ Len(ldArgv.positionals) > Len(positionalsSchema.slots)
      /\ \A i \in 1..Len(positionalsSchema.slots) : ~positionalsSchema.slots[i].varargs )

SmStateAlwaysDeclared ==
  /\ ~smExited
  /\ \A i \in SmInstances : instanceRuntime[i].state \in DOMAIN smCfg.states

\* C38: whenever a when expression is evaluated, timeInStateMs is
\* now - enteredAtMs, also for an instance that never left its initial state
SmTimeInStateIsNowMinusEntered ==
  \A k \in 1..Len(smIn) : \A i \in SmInstances :
    ( /\ smIn[k].before[i].state \in DOMAIN smCfg.states
      /\ Len(smCfg.states[smIn[k].before[i].state]) > 0 )
    => smIn[k].timeIn[i] = smIn[k].nowMs - smIn[k].before[i].enteredAtMs

\* C39: within one record every instance evaluates its when expressions
\* against the instancesInState count taken before any transition of that
\* record
SmCountsFixedPerRecord ==
  \A k \in 1..Len(smIn) : \A i \in SmInstances :
    smIn[k].seen[i] =
      Cardinality({j \in SmInstances : smIn[k].before[j].state = "active"})

\* a record in which the first instance became active before the second
\* instance, itself active, evaluated a when expression that reads
\* instancesInState, and the second instance stayed as it was
SmCountsWitness ==
  \E k \in 1..Len(smIn) :
    /\ smIn[k].before[1].state = "idle" /\ smIn[k].after[1].state = "active"
    /\ smIn[k].before[2].state = "active" /\ smIn[k].after[2].state = "active"
    /\ "active" \in DOMAIN smCfg.states
    /\ \E t \in 1..Len(smCfg.states["active"]) :
         smCfg.states["active"][t].when.ref = "instancesInState.active"

\* C36: each bounded-mode side window is in non-decreasing meta.timestamp
\* order, whatever order the side records arrived in
MergeSideWindowOrdered ==
  \A idx \in 1..Len(sideBuffers) :
    ~allowUnbounded[idx] =>
      \A i, j \in 1..Len(sideBuffers[idx]) :
        i < j => TsOrZero(sideBuffers[idx][i].ts) <= TsOrZero(sideBuffers[idx][j].ts)

\* C37: the main buffer and every side buffer hold only records inside the
\* maxBufferMs window: none is older than the cutoff of the earliest instant
\* at which a record can have been pushed
MergeBuffersWindowed ==
  LET cutoff == MergeNowBase - MAX_BUFFER_MS
  IN /\ \A i \in 1..Len(mainBuffer) : ~TsOlderThan(mainBuffer[i].ts, cutoff)
     /\ \A idx \in 1..Len(sideBuffers) : \A i \in 1..Len(sideBuffers[idx]) :
          ~TsOlderThan(sideBuffers[idx][i].ts, cutoff)

\* C35: a record dropped under missing "fail" leaves the retention map as
\* it was before the record
RedDropKeepsRetained ==
  [][ ( /\ reduceCfg.missing = "fail"
        /\ Len(redIn') = Len(redIn) + 1
        /\ redOut' = redOut
        /\ ~redHung' )
      => retained' = retained ]_vars

\* C40: with check_fields configured, a record whose data agrees with the
\* last emitted data on every compared key is dropped; a compared key absent
\* from both does not count as a change
DedupCheckFieldsAgreeDrops ==
  \A i \in 1..Len(dedIn) :
    LET base == DedupBaseOf(i)
        agrees(k) == IF dedIn[i][k].k = "absent" \/ dedIn[base][k].k = "absent"
                       THEN dedIn[i][k].k = dedIn[base][k].k
                       ELSE ~FieldChanged(dedIn[i][k], dedIn[base][k])
    IN ( /\ dedupCfg.check_given
         /\ base # 0
         /\ \A k \in dedupCfg.check_fields \ dedupCfg.ignore_fields : agrees(k) )
       => i \notin DedupEmittedIdx

====
